---- MODULE Spec2Model ----
(***************************************************************************)
(* Video ingestion and frame dispatch pipeline of PotholeBackend:          *)
(*   app/utils/video_processor.py  (stream registry, VideoStreamProcessor) *)
(*   app/utils/frame_queue.py      (FrameQueue and its worker threads)     *)
(*   app/views.py                  (VideoStreamView control surface)       *)
(* Threads are interleaved at the points where the code blocks or where    *)
(* it leaves a lock: one capture thread per engine, the queue's workers,   *)
(* and the request threads that call the registry.                         *)
(***************************************************************************)
EXTENDS Integers, Sequences, FiniteSets, TLC

\* ---------------------------------------------------------------- bounds
\* Engines (VideoStreamProcessor objects) constructed in one run.
MaxEngines == 2
\* Frames the sampling policy selects in one run, over all engines.
MaxSamples == 4
\* Tasks submitted straight to the queue (not by an engine) in one run.
MaxSubmits == 3
\* Times FrameQueue.start spawns its workers in one run.
MaxStarts == 2
\* Ticks the clocks of one capture loop advance in one run.
MaxTime == 4
\* VideoStreamProcessor(frame_interval=...): a constructor argument, in
\* seconds of wall or video time; here in ticks.
FrameInterval == 2
\* VideoStreamProcessor(max_queue_size=...): a constructor argument whose
\* default is 50; the model runs the same comparison against a depth the
\* bounded runs can fill.
max_queue_size == 1

\* MAX_BUFFER_SIZE of _mjpeg_capture_loop (10 MB there): bytes the rolling
\* buffer may hold; large enough for two markers after a stray one.
MAX_BUFFER_SIZE == 6
\* iter_content(chunk_size=...) of _mjpeg_capture_loop (4096 there): bytes
\* one chunk may carry.
MaxChunk == 2

\* ------------------------------------------------------- program constants
\* frame_queue = FrameQueue(max_workers=2)
max_workers == 2

StreamIds == {"s1", "s2"}
\* A source is a local file, a live RTSP url or an HTTP (MJPEG) url.
Sources == {"file", "rtsp", "http"}
Engines == 1..MaxEngines
\* Worker threads: every start that takes effect spawns max_workers new ones.
Workers == 1..(max_workers * MaxStarts)
None == "None"
\* Identifiers a caller of add_frame_processing_task may pass.
Names == {"a", "b"}
\* uuid.uuid4().hex[:8]: a random draw, so two draws may agree.
Suffixes == {"u1", "u2"}
\* Task identifiers: f"{stream_id}:{frame_number}:{suffix}", or a caller's name.
TaskIds == (StreamIds \X (1..MaxSamples) \X Suffixes) \cup (Names \X {0} \X {None})

VARIABLES
    active_streams,     \* _active_streams: stream id -> engine (0: no entry)
    stream_lock,        \* _stream_lock: "free", or the id stop_video_stream joins
    nEngines,           \* engines constructed so far
    config,             \* engine -> [stream_id, video_source]
    is_running,         \* engine -> self.is_running
    connection_active,  \* engine -> self.connection_active
    thread,             \* engine -> where its capture thread is ("none": no thread)
    stats,              \* engine -> StreamStats
    ret,                \* what the last registry call returned
    resp,               \* what the last control-surface request answered
    fq_is_running,      \* frame_queue.is_running
    fq_workers,         \* frame_queue.workers: the worker threads start() spawned last
    fq_stop,            \* where a caller of FrameQueue.stop stands
    task_queue,         \* frame_queue.task_queue: task numbers, 0 for the sentinel None
    result_store,       \* frame_queue.result_store: task id -> task number
    tasks,              \* every Task object constructed, in construction order
    worker,             \* worker thread -> [pc, task, out]
    pending,            \* engine -> the frame its capture thread is handling
    nSamples,           \* frames selected by the sampling policy so far
    sampling,           \* engine -> clocks and locals of its capture loop's sampling
    stats_lock,         \* engine -> who holds self._stats_lock across steps ("free": nobody)
    scan,               \* the raw MJPEG scan: [byte_stream, chunk, jpg_data]
    nSubmits,           \* tasks submitted straight to the queue so far
    submitting          \* the task a caller of add_task has put and not yet stored

vars == <<active_streams, stream_lock, nEngines, config, is_running,
          connection_active, thread, stats, ret, resp, fq_is_running,
          fq_workers, fq_stop,
          task_queue, result_store, tasks, worker, pending, nSamples, sampling, stats_lock, scan,
          nSubmits,
          submitting>>

registryVars == <<active_streams, stream_lock, ret, resp>>
engineVars == <<nEngines, config, is_running, connection_active, thread, stats,
                pending, nSamples, sampling, stats_lock, scan>>
queueVars == <<fq_is_running, fq_workers, fq_stop, task_queue, result_store, tasks,
               worker, nSubmits, submitting>>
queueExceptWorker == <<fq_is_running, fq_workers, fq_stop, task_queue, result_store,
                       tasks, nSubmits, submitting>>

\* ------------------------------------------------------------- data model
\* StreamStats() as constructed (the time stamps are left out: no claim reads them)
StreamStats ==
    [frames_processed |-> 0, frames_sent |-> 0, frames_failed |-> 0,
     frames_dropped |-> 0, last_error |-> None]

\* A worker thread that has not been spawned.
IdleWorker == [pc |-> "none", task |-> 0, out |-> None]

\* No sampled frame in hand.
NoFrame == [seq |-> 0, path |-> None, task |-> 0]

\* No sample taken yet (Python's None for last_sample_msec).
NoSample == -1

\* The wall clock and the video position as a capture loop reads them, in
\* ticks, and the loop's locals at its start: last_sample_wall = 0.0,
\* last_sample_msec = None. time.time() is far above any interval, so the
\* clock starts at FrameInterval. prev_wall and prev_pos are wall time and
\* position of the frame sampled last.
NewSampling ==
    [now |-> FrameInterval, pos |-> 0,
     last_sample_wall |-> 0, last_sample_msec |-> NoSample,
     prev_wall |-> NoSample, prev_pos |-> NoSample]

\* The raw MJPEG scan before the first chunk: `byte_stream = bytes()`.
NoScan == [byte_stream |-> <<>>, chunk |-> <<>>, jpg_data |-> <<>>]

\* No caller is inside FrameQueue.stop.
NotStopping == [pc |-> "idle", left |-> 0]

\* No registry call made, no request answered.
NoCall == [op |-> "none"]

NoConfig == [stream_id |-> None, video_source |-> None]

\* urlparse(value).scheme in {"http", "https", "rtsp", "rtmp"}
is_probably_url(src) == src \in {"http", "rtsp"}

\* self.video_source.startswith(("http://", "https://"))
is_http(src) == src = "http"

\* is_local_file taking every source for a live one.
is_local_file_Never(src) == FALSE

\* (not _is_probably_url(src)) and Path(src).exists()
is_local_file(src) == ~is_probably_url(src)

\* A thread object exists and has not finished.
ThreadAlive(e) == thread[e] \notin {"none", "done"}

\* Places where the capture thread waits on the source or sleeps.
BlockingPlaces == {"cv_open", "cv_read", "cv_reconnect", "mjpeg_connect", "mjpeg_iter"}

Init ==
    /\ active_streams = [s \in StreamIds |-> 0]
    /\ stream_lock = "free"
    /\ nEngines = 0
    /\ config = [e \in Engines |-> NoConfig]
    /\ is_running = [e \in Engines |-> FALSE]
    /\ connection_active = [e \in Engines |-> FALSE]
    /\ thread = [e \in Engines |-> "none"]
    /\ stats = [e \in Engines |-> StreamStats]
    /\ ret = NoCall
    /\ resp = NoCall
    /\ fq_is_running = FALSE
    /\ fq_workers = {}
    /\ fq_stop = NotStopping
    /\ task_queue = <<>>
    /\ result_store = [i \in TaskIds |-> 0]
    /\ tasks = <<>>
    /\ worker = [w \in Workers |-> IdleWorker]
    /\ pending = [e \in Engines |-> NoFrame]
    /\ nSamples = 0
    /\ sampling = [e \in Engines |-> NewSampling]
    /\ stats_lock = [e \in Engines |-> "free"]
    /\ scan = NoScan
    /\ nSubmits = 0
    /\ submitting = 0

\* ------------------------------------------------------------ FrameQueue
\* Worker threads spawned so far, and those that have not finished.
Spawned == {w \in Workers : worker[w].pc # "none"}
LiveWorkers == {w \in Workers : worker[w].pc \notin {"none", "done"}}

\* FrameQueue.start, reached through init_frame_queue(): a no-op while
\* running; otherwise the flag is set and max_workers new threads spawned,
\* which become self.workers.
FrameQueueStart ==
    IF fq_is_running
    THEN UNCHANGED <<fq_is_running, fq_workers, worker>>
    ELSE LET first == Cardinality(Spawned) + 1
             new == first..(first + max_workers - 1)
         IN /\ new \subseteq Workers
            /\ fq_is_running' = TRUE
            /\ fq_workers' = new
            /\ worker' = [w \in Workers |->
                             IF w \in new THEN [pc |-> "check", task |-> 0, out |-> None]
                             ELSE worker[w]]

\* Task(id=task_id, function=function, ...): status PENDING, nothing else set.
\* engine is the VideoStreamProcessor whose _post_frame_to_detection the task
\* runs (0: some other callable), seq the frame_number argument.
NewTask(task_id, e, seq) ==
    [id |-> task_id, engine |-> e, seq |-> seq, status |-> "pending",
     result |-> None, error |-> None, started_at |-> FALSE, completed_at |-> FALSE]

\* FrameQueue.add_task, first half: the Task is built and put on task_queue.
AddTaskPut(task_id, e, seq) ==
    /\ tasks' = Append(tasks, NewTask(task_id, e, seq))
    /\ task_queue' = Append(task_queue, Len(tasks) + 1)

\* AddTaskStore keeping the entry an identifier already has.
AddTaskStore_KeepFirst(t) ==
    result_store' = IF result_store[tasks[t].id] = 0
                    THEN [result_store EXCEPT ![tasks[t].id] = t]
                    ELSE result_store

\* FrameQueue.add_task, second half: result_store[task_id] = task.
AddTaskStore(t) ==
    result_store' = [result_store EXCEPT ![tasks[t].id] = t]

\* `with self._stats_lock:` can be entered: no other thread is inside one.
\* A block that only assigns fields is entered and left within one step.
StatsLockFree(e) == stats_lock[e] = "free"

\* What get_task_status returns for an identifier the store does not hold
\* (Python's None).
NotFound == [found |-> FALSE]

\* FrameQueue.get_task_status(task_id): None, or the fields of the stored Task.
get_task_status(task_id) ==
    IF result_store[task_id] = 0 THEN NotFound
    ELSE LET task == tasks[result_store[task_id]] IN
         [found |-> TRUE, id |-> task.id, status |-> task.status,
          result |-> task.result, error |-> task.error,
          started_at |-> task.started_at, completed_at |-> task.completed_at]

\* A caller of add_frame_processing_task(name, function): put, then store.
SubmitPut(name) ==
    /\ submitting = 0
    /\ nSubmits < MaxSubmits
    /\ nSubmits' = nSubmits + 1
    /\ AddTaskPut(<<name, 0, None>>, 0, 0)
    /\ submitting' = Len(tasks) + 1
    /\ UNCHANGED <<fq_is_running, fq_workers, fq_stop, result_store, worker, registryVars, engineVars>>

\* SubmitStore made to wait until the task has been executed.
SubmitStore_Waits ==
    /\ submitting # 0
    /\ tasks[submitting].status \in {"completed", "failed"}
    /\ AddTaskStore(submitting)
    /\ submitting' = 0
    /\ UNCHANGED <<fq_is_running, fq_workers, fq_stop, task_queue, tasks, worker,
                   nSubmits, registryVars, engineVars>>

\* add_task from result_store[task_id] = task to its return.
SubmitStore ==
    /\ submitting # 0
    /\ AddTaskStore(submitting)
    /\ submitting' = 0
    /\ UNCHANGED <<fq_is_running, fq_workers, fq_stop, task_queue, tasks, worker, nSubmits,
                   registryVars, engineVars>>

\* _worker, `while self.is_running:`.
WorkerCheck(w) ==
    /\ worker[w].pc = "check"
    /\ worker' = [worker EXCEPT ![w].pc = IF fq_is_running THEN "get" ELSE "done"]
    /\ UNCHANGED <<fq_is_running, fq_workers, fq_stop, task_queue, result_store, tasks, nSubmits,
                   submitting, registryVars, engineVars>>

\* WorkerGet for a worker that ends when it finds the queue empty.
WorkerGet_Quit(w) ==
    /\ worker[w].pc = "get"
    /\ IF task_queue = <<>>
       THEN /\ worker' = [worker EXCEPT ![w].pc = "done"]
            /\ UNCHANGED task_queue
       ELSE /\ task_queue' = Tail(task_queue)
            /\ worker' = [worker EXCEPT ![w] =
                   IF Head(task_queue) = 0
                   THEN [pc |-> "done", task |-> 0, out |-> None]
                   ELSE [pc |-> "set_running", task |-> Head(task_queue), out |-> None]]
    /\ UNCHANGED <<fq_is_running, fq_workers, fq_stop, result_store, tasks, nSubmits, submitting,
                   registryVars, engineVars>>

\* WorkerGet on a queue that hands out the task put last.
WorkerGet_Last(w) ==
    /\ worker[w].pc = "get"
    /\ IF task_queue = <<>>
       THEN /\ worker' = [worker EXCEPT ![w].pc = "check"]
            /\ UNCHANGED task_queue
       ELSE LET last == task_queue[Len(task_queue)] IN
            /\ task_queue' = SubSeq(task_queue, 1, Len(task_queue) - 1)
            /\ worker' = [worker EXCEPT ![w] =
                   IF last = 0
                   THEN [pc |-> "done", task |-> 0, out |-> None]
                   ELSE [pc |-> "set_running", task |-> last, out |-> None]]
    /\ UNCHANGED <<fq_is_running, fq_workers, fq_stop, result_store, tasks, nSubmits, submitting,
                   registryVars, engineVars>>

\* _worker, task_queue.get(timeout=1): queue.Empty sends the worker back to
\* the loop test, the sentinel None ends it, a Task is taken.
WorkerGet(w) ==
    /\ worker[w].pc = "get"
    /\ IF task_queue = <<>>
       THEN /\ worker' = [worker EXCEPT ![w].pc = "check"]
            /\ UNCHANGED task_queue
       ELSE /\ task_queue' = Tail(task_queue)
            /\ worker' = [worker EXCEPT ![w] =
                   IF Head(task_queue) = 0
                   THEN [pc |-> "done", task |-> 0, out |-> None]
                   ELSE [pc |-> "set_running", task |-> Head(task_queue), out |-> None]]
    /\ UNCHANGED <<fq_is_running, fq_workers, fq_stop, result_store, tasks, nSubmits, submitting,
                   registryVars, engineVars>>

\* WorkerSetRunning with the assignment of RUNNING forgotten.
WorkerSetRunning_Skip(w) ==
    /\ worker[w].pc = "set_running"
    /\ worker' = [worker EXCEPT ![w].pc = "set_started"]
    /\ UNCHANGED <<fq_is_running, fq_workers, fq_stop, task_queue, result_store, tasks, nSubmits,
                   submitting, registryVars, engineVars>>

\* _worker, task.status = TaskStatus.RUNNING
WorkerSetRunning(w) ==
    /\ worker[w].pc = "set_running"
    /\ tasks' = [tasks EXCEPT ![worker[w].task].status = "running"]
    /\ worker' = [worker EXCEPT ![w].pc = "set_started"]
    /\ UNCHANGED <<fq_is_running, fq_workers, fq_stop, task_queue, result_store, nSubmits, submitting,
                   registryVars, engineVars>>

\* _worker, task.started_at = time.time(); the call of task.function begins.
WorkerSetStarted(w) ==
    /\ worker[w].pc = "set_started"
    /\ tasks' = [tasks EXCEPT ![worker[w].task].started_at = TRUE]
    /\ worker' = [worker EXCEPT ![w].pc = "call"]
    /\ UNCHANGED <<fq_is_running, fq_workers, fq_stop, task_queue, result_store, nSubmits, submitting,
                   registryVars, engineVars>>

\* PostFrameToDetection with the except clause only re-raising.
PostFrameToDetection_NoCount(e, ok) ==
    /\ StatsLockFree(e)
    /\ stats' = IF ok
                THEN [stats EXCEPT ![e].frames_sent = @ + 1]
                ELSE stats

\* PostFrameToDetection counting a frame as sent before it looks at the answer.
PostFrameToDetection_SentAlways(e, ok) ==
    /\ StatsLockFree(e)
    /\ stats' = IF ok
                THEN [stats EXCEPT ![e].frames_sent = @ + 1]
                ELSE [stats EXCEPT ![e].frames_sent = @ + 1,
                                   ![e].frames_failed = @ + 1,
                                   ![e].last_error = "post failed"]

\* _post_frame_to_detection from the return of requests.post: with a 2xx
\* answer frames_sent is counted and the payload returned; with anything
\* else frames_failed is counted, last_error set, and the exception raised.
PostFrameToDetection(e, ok) ==
    /\ StatsLockFree(e)
    /\ stats' = IF ok
                THEN [stats EXCEPT ![e].frames_sent = @ + 1]
                ELSE [stats EXCEPT ![e].frames_failed = @ + 1,
                                   ![e].last_error = "post failed"]

\* _worker, task.function(*task.args) returns (ok) or raises (~ok).
WorkerCall(w, ok) ==
    /\ worker[w].pc = "call"
    /\ IF tasks[worker[w].task].engine # 0
       THEN PostFrameToDetection(tasks[worker[w].task].engine, ok)
       ELSE UNCHANGED stats
    /\ worker' = [worker EXCEPT ![w].pc = IF ok THEN "set_result" ELSE "set_error",
                                ![w].out = IF ok THEN "payload" ELSE "exception text"]
    /\ UNCHANGED <<queueExceptWorker, registryVars, nEngines, config, is_running,
                   connection_active, thread, pending, nSamples, sampling, stats_lock, scan>>

\* _worker, task.result = result
WorkerSetResult(w) ==
    /\ worker[w].pc = "set_result"
    /\ tasks' = [tasks EXCEPT ![worker[w].task].result = worker[w].out]
    /\ worker' = [worker EXCEPT ![w].pc = "set_completed"]
    /\ UNCHANGED <<fq_is_running, fq_workers, fq_stop, task_queue, result_store, nSubmits, submitting,
                   registryVars, engineVars>>

\* _worker, task.status = TaskStatus.COMPLETED
WorkerSetCompleted(w) ==
    /\ worker[w].pc = "set_completed"
    /\ tasks' = [tasks EXCEPT ![worker[w].task].status = "completed"]
    /\ worker' = [worker EXCEPT ![w].pc = "finally"]
    /\ UNCHANGED <<fq_is_running, fq_workers, fq_stop, task_queue, result_store, nSubmits, submitting,
                   registryVars, engineVars>>

\* WorkerSetError storing the message in task.result instead of task.error.
WorkerSetError_AsResult(w) ==
    /\ worker[w].pc = "set_error"
    /\ tasks' = [tasks EXCEPT ![worker[w].task].result = worker[w].out]
    /\ worker' = [worker EXCEPT ![w].pc = "set_failed"]
    /\ UNCHANGED <<fq_is_running, fq_workers, fq_stop, task_queue, result_store, nSubmits, submitting,
                   registryVars, engineVars>>

\* _worker, task.error = str(e)
WorkerSetError(w) ==
    /\ worker[w].pc = "set_error"
    /\ tasks' = [tasks EXCEPT ![worker[w].task].error = worker[w].out]
    /\ worker' = [worker EXCEPT ![w].pc = "set_failed"]
    /\ UNCHANGED <<fq_is_running, fq_workers, fq_stop, task_queue, result_store, nSubmits, submitting,
                   registryVars, engineVars>>

\* WorkerSetFailed for a worker that a failed task brings down.
WorkerSetFailed_Dies(w) ==
    /\ worker[w].pc = "set_failed"
    /\ tasks' = [tasks EXCEPT ![worker[w].task].status = "failed"]
    /\ worker' = [worker EXCEPT ![w] = [pc |-> "done", task |-> 0, out |-> None]]
    /\ UNCHANGED <<fq_is_running, fq_workers, fq_stop, task_queue, result_store, nSubmits, submitting,
                   registryVars, engineVars>>

\* _worker, task.status = TaskStatus.FAILED
WorkerSetFailed(w) ==
    /\ worker[w].pc = "set_failed"
    /\ tasks' = [tasks EXCEPT ![worker[w].task].status = "failed"]
    /\ worker' = [worker EXCEPT ![w].pc = "finally"]
    /\ UNCHANGED <<fq_is_running, fq_workers, fq_stop, task_queue, result_store, nSubmits, submitting,
                   registryVars, engineVars>>

\* _worker, finally: task.completed_at = time.time(); task_done(); the loop
\* test comes next.
WorkerFinally(w) ==
    /\ worker[w].pc = "finally"
    /\ tasks' = [tasks EXCEPT ![worker[w].task].completed_at = TRUE]
    /\ worker' = [worker EXCEPT ![w] = [pc |-> "check", task |-> 0, out |-> None]]
    /\ UNCHANGED <<fq_is_running, fq_workers, fq_stop, task_queue, result_store, nSubmits, submitting,
                   registryVars, engineVars>>

\* init_frame_queue(), called on its own.
init_frame_queue ==
    /\ FrameQueueStart
    /\ UNCHANGED <<fq_stop, task_queue, result_store, tasks, nSubmits, submitting,
                   registryVars, engineVars>>

\* FrameQueue.stop, reached through shutdown_frame_queue(): the flag is
\* cleared; the sentinels and the joins follow.
FrameQueueStop_begin ==
    /\ fq_stop.pc = "idle"
    /\ fq_is_running' = FALSE
    /\ fq_stop' = [pc |-> "put", left |-> max_workers]
    /\ UNCHANGED <<fq_workers, task_queue, result_store, tasks, worker, nSubmits,
                   submitting, registryVars, engineVars>>

\* FrameQueue.stop, `self.task_queue.put(None)`, once per worker.
FrameQueueStop_put ==
    /\ fq_stop.pc = "put"
    /\ task_queue' = Append(task_queue, 0)
    /\ fq_stop' = IF fq_stop.left = 1 THEN [pc |-> "join", left |-> 0]
                  ELSE [pc |-> "put", left |-> fq_stop.left - 1]
    /\ UNCHANGED <<fq_is_running, fq_workers, result_store, tasks, worker, nSubmits,
                   submitting, registryVars, engineVars>>

\* worker.join(timeout=5) returns: the worker has finished, or the five
\* seconds have passed while it runs a task's function.
WorkerJoinReturns(w) == worker[w].pc \in {"done", "call"}

\* FrameQueue.stop from the joins of self.workers to `self.workers = []`.
FrameQueueStop_join ==
    /\ fq_stop.pc = "join"
    /\ \A w \in fq_workers : WorkerJoinReturns(w)
    /\ fq_workers' = {}
    /\ fq_stop' = NotStopping
    /\ UNCHANGED <<fq_is_running, task_queue, result_store, tasks, worker, nSubmits,
                   submitting, registryVars, engineVars>>

\* ------------------------------------------------- VideoStreamProcessor
\* VideoStreamProcessor.__init__ for engine e: the configuration is taken;
\* is_running, connection_active, _thread and _stats of an engine not yet
\* constructed already hold what __init__ gives them (see Init).
ProcessorInit(e, stream_id, video_source) ==
    config' = [config EXCEPT ![e] = [stream_id |-> stream_id, video_source |-> video_source]]

\* What VideoStreamProcessor.start returns for engine e; `opened` is what
\* test_cap.isOpened() answers.
StartReturns(e, opened) == ~is_running[e] /\ opened

\* VideoStreamProcessor.start for engine e: refused while running; else the
\* queue's workers are started, the source is probed, and only an open
\* source sets the flag and spawns the capture thread.
ProcessorStart(e, opened) ==
    IF is_running[e]
    THEN UNCHANGED <<fq_is_running, fq_workers, worker, is_running,
                     connection_active, thread, stats>>
    ELSE /\ FrameQueueStart
         /\ IF ~opened
            THEN /\ connection_active' = [connection_active EXCEPT ![e] = FALSE]
                 /\ stats' = [stats EXCEPT ![e].last_error = "Failed to open video source"]
                 /\ UNCHANGED <<is_running, thread>>
            ELSE /\ is_running' = [is_running EXCEPT ![e] = TRUE]
                 /\ thread' = [thread EXCEPT ![e] = "start"]
                 /\ UNCHANGED <<connection_active, stats>>

\* ------------------------------------------------------- stream registry
\* err = processor.get_status().get("last_error") or "Failed to start stream"
StartError(last_error) == IF last_error = None THEN "Failed to start stream" ELSE last_error

\* ConstructAndStart registering the engine whatever start() returned.
ConstructAndStart_RegisterAlways(stream_id, video_source, opened) ==
    /\ nEngines < MaxEngines
    /\ LET e == nEngines + 1 IN
       /\ nEngines' = e
       /\ ProcessorInit(e, stream_id, video_source)
       /\ ProcessorStart(e, opened)
       /\ active_streams' = [active_streams EXCEPT ![stream_id] = e]
       /\ ret' = [op |-> "start", id |-> stream_id,
                  value |-> IF StartReturns(e, opened) THEN <<TRUE, None>>
                            ELSE <<FALSE, StartError(stats'[e].last_error)>>]
    /\ UNCHANGED <<fq_stop, task_queue, result_store, tasks, nSubmits, submitting,
                   pending, nSamples, sampling, stats_lock, scan>>

\* start_video_stream past the membership test: the engine is constructed
\* and started, registered if start() succeeded, and (success, error) returned.
ConstructAndStart(stream_id, video_source, opened) ==
    /\ nEngines < MaxEngines
    /\ LET e == nEngines + 1 IN
       /\ nEngines' = e
       /\ ProcessorInit(e, stream_id, video_source)
       /\ ProcessorStart(e, opened)
       /\ active_streams' = IF StartReturns(e, opened)
                            THEN [active_streams EXCEPT ![stream_id] = e]
                            ELSE active_streams
       /\ ret' = [op |-> "start", id |-> stream_id,
                  value |-> IF StartReturns(e, opened) THEN <<TRUE, None>>
                            ELSE <<FALSE, StartError(stats'[e].last_error)>>]
    /\ UNCHANGED <<fq_stop, task_queue, result_store, tasks, nSubmits, submitting,
                   pending, nSamples, sampling, stats_lock, scan>>

\* start_video_stream with the `stream_id in _active_streams` test left out.
start_video_stream_NoCheck(stream_id, video_source, opened) ==
    /\ stream_lock = "free"
    /\ ConstructAndStart(stream_id, video_source, opened)
    /\ UNCHANGED stream_lock

\* start_video_stream(stream_id, video_source, ...), the whole call under
\* _stream_lock; ret'.value is the (success, error_message) tuple.
start_video_stream(stream_id, video_source, opened) ==
    /\ stream_lock = "free"
    /\ IF active_streams[stream_id] # 0
       THEN /\ ret' = [op |-> "start", id |-> stream_id,
                       value |-> <<FALSE, "already running">>]
            /\ UNCHANGED <<active_streams, engineVars, queueVars>>
       ELSE ConstructAndStart(stream_id, video_source, opened)
    /\ UNCHANGED stream_lock

\* --------------------------------------------------------- capture thread
\* _set_error(msg)
SetError(e, msg) ==
    /\ StatsLockFree(e)
    /\ stats' = [stats EXCEPT ![e].last_error = msg]

\* Where the capture thread goes on after _enqueue_detection returned.
BackToLoop(path) == IF path = "mjpeg" THEN "mjpeg_iter" ELSE "cv_loop"

\* CaptureLoop going to the generic capture for every source.
CaptureLoop_CvOnly(e) ==
    /\ thread[e] = "start"
    /\ thread' = [thread EXCEPT ![e] = "cv_open"]
    /\ UNCHANGED <<nEngines, config, is_running, connection_active, stats,
                   pending, nSamples, sampling, stats_lock, scan, registryVars, queueVars>>

\* _capture_loop: an HTTP(S) source tries the raw MJPEG scan first.
CaptureLoop(e) ==
    /\ thread[e] = "start"
    /\ thread' = [thread EXCEPT ![e] =
                    IF is_http(config[e].video_source) THEN "mjpeg_connect" ELSE "cv_open"]
    /\ UNCHANGED <<nEngines, config, is_running, connection_active, stats,
                   pending, nSamples, sampling, stats_lock, scan, registryVars, queueVars>>

\* _mjpeg_capture_loop, requests.get: 200, another status, or an exception.
\* Every return passes `finally: self.connection_active = False`; a False
\* return makes _capture_loop fall back to _opencv_capture_loop.
MjpegConnect(e, outcome) ==
    /\ thread[e] = "mjpeg_connect"
    /\ CASE outcome = "ok" ->
              /\ connection_active' = [connection_active EXCEPT ![e] = TRUE]
              /\ thread' = [thread EXCEPT ![e] = "mjpeg_iter"]
              /\ UNCHANGED stats
         [] outcome = "status" ->
              /\ SetError(e, "HTTP status")
              /\ connection_active' = [connection_active EXCEPT ![e] = FALSE]
              /\ thread' = [thread EXCEPT ![e] = "cv_open"]
         [] outcome = "error" ->
              /\ SetError(e, "MJPEG capture error")
              /\ connection_active' = [connection_active EXCEPT ![e] = FALSE]
              /\ thread' = [thread EXCEPT ![e] = "cv_open"]
    /\ UNCHANGED <<nEngines, config, is_running, pending, nSamples, sampling, stats_lock, scan,
                   registryVars, queueVars>>

\* _mjpeg_capture_loop, one turn of `for chunk in resp.iter_content(...)`:
\*   "chunk"  a chunk that completes no frame, or a frame inside the interval
\*   "sample" a frame the interval selects and imdecode accepts
\*   "undecodable" a frame the interval selects and imdecode rejects
\*   "end"    the response body ends
\*   "error"  the read raises
\* The running flag is tested only once a chunk has arrived.
MjpegChunk(e, event) ==
    /\ thread[e] = "mjpeg_iter"
    /\ CASE event = "end" \/ (event \in {"chunk", "sample", "undecodable"} /\ ~is_running[e]) ->
              /\ connection_active' = [connection_active EXCEPT ![e] = FALSE]
              /\ thread' = [thread EXCEPT ![e] = "done"]
              /\ UNCHANGED <<stats, pending, nSamples>>
         [] event = "error" ->
              /\ SetError(e, "MJPEG capture error")
              /\ connection_active' = [connection_active EXCEPT ![e] = FALSE]
              /\ thread' = [thread EXCEPT ![e] = "cv_open"]
              /\ UNCHANGED <<pending, nSamples>>
         [] event = "chunk" /\ is_running[e] ->
              UNCHANGED <<connection_active, thread, stats, pending, nSamples>>
         [] event = "undecodable" /\ is_running[e] ->
              /\ StatsLockFree(e)
              /\ nSamples < MaxSamples
              /\ nSamples' = nSamples + 1
              /\ UNCHANGED <<connection_active, thread, stats, pending>>
         [] event = "sample" /\ is_running[e] ->
              /\ StatsLockFree(e)
              /\ nSamples < MaxSamples
              /\ nSamples' = nSamples + 1
              /\ pending' = [pending EXCEPT ![e] = [seq |-> 0, path |-> "mjpeg", task |-> 0]]
              /\ thread' = [thread EXCEPT ![e] = "enqueue"]
              /\ UNCHANGED <<connection_active, stats>>
    /\ UNCHANGED <<nEngines, config, is_running, sampling, stats_lock, scan, registryVars, queueVars>>

\* _opencv_capture_loop, cv2.VideoCapture(self.video_source) and isOpened().
CvOpen(e, opened) ==
    /\ thread[e] = "cv_open"
    /\ IF opened
       THEN /\ connection_active' = [connection_active EXCEPT ![e] = TRUE]
            /\ thread' = [thread EXCEPT ![e] = "cv_loop"]
            /\ UNCHANGED stats
       ELSE /\ connection_active' = [connection_active EXCEPT ![e] = FALSE]
            /\ SetError(e, "Failed to open video source")
            /\ thread' = [thread EXCEPT ![e] = "done"]
    /\ UNCHANGED <<nEngines, config, is_running, pending, nSamples, sampling, stats_lock, scan,
                   registryVars, queueVars>>

\* CvLoop reading on without looking at the flag.
CvLoop_Ignore(e) ==
    /\ thread[e] = "cv_loop"
    /\ thread' = [thread EXCEPT ![e] = "cv_read"]
    /\ UNCHANGED <<nEngines, config, is_running, connection_active, stats,
                   pending, nSamples, sampling, stats_lock, scan, registryVars, queueVars>>

\* _opencv_capture_loop, `while self.is_running:`.
CvLoop(e) ==
    /\ thread[e] = "cv_loop"
    /\ thread' = [thread EXCEPT ![e] = IF is_running[e] THEN "cv_read" ELSE "done"]
    /\ UNCHANGED <<nEngines, config, is_running, connection_active, stats,
                   pending, nSamples, sampling, stats_lock, scan, registryVars, queueVars>>

\* CvRead for which a failed read always ends the loop, as it does for a file.
CvRead_NoReconnect(e, event) ==
    /\ thread[e] = "cv_read"
    /\ event \in {"frame", "sample"} => connection_active[e] /\ StatsLockFree(e)
    /\ CASE event = "raise" ->
              /\ connection_active' = [connection_active EXCEPT ![e] = FALSE]
              /\ SetError(e, "exception text")
              /\ thread' = [thread EXCEPT ![e] = "done"]
              /\ UNCHANGED <<pending, nSamples>>
         [] event = "fail" ->
              /\ connection_active' = [connection_active EXCEPT ![e] = FALSE]
              /\ SetError(e, "Stream ended or error reading frame")
              /\ thread' = [thread EXCEPT ![e] = "done"]
              /\ UNCHANGED <<pending, nSamples>>
         [] event = "frame" ->
              /\ thread' = [thread EXCEPT ![e] = "cv_loop"]
              /\ UNCHANGED <<connection_active, stats, pending, nSamples>>
         [] event = "sample" ->
              /\ nSamples < MaxSamples
              /\ nSamples' = nSamples + 1
              /\ pending' = [pending EXCEPT ![e] = [seq |-> 0, path |-> "cv", task |-> 0]]
              /\ thread' = [thread EXCEPT ![e] = "enqueue"]
              /\ UNCHANGED <<connection_active, stats>>
    /\ UNCHANGED <<nEngines, config, is_running, sampling, stats_lock, scan, registryVars, queueVars>>

\* _opencv_capture_loop, cap.read() returns:
\*   "fail"   ret is False
\*   "frame"  a frame the sampling policy passes over
\*   "sample" a frame the sampling policy selects
\*   "raise"  an exception, which ends the loop through `except`
\* A capture that is not open yields no frame: in this loop connection_active
\* is true exactly when `cap` is open (set at the open, cleared by the failed
\* read, set again only by a reopen that succeeded).
CvRead(e, event) ==
    /\ thread[e] = "cv_read"
    /\ event \in {"frame", "sample"} => connection_active[e] /\ StatsLockFree(e)
    /\ CASE event = "raise" ->
              /\ connection_active' = [connection_active EXCEPT ![e] = FALSE]
              /\ SetError(e, "exception text")
              /\ thread' = [thread EXCEPT ![e] = "done"]
              /\ UNCHANGED <<pending, nSamples>>
         [] event = "fail" ->
              /\ connection_active' = [connection_active EXCEPT ![e] = FALSE]
              /\ SetError(e, "Stream ended or error reading frame")
              /\ thread' = [thread EXCEPT ![e] =
                     IF is_local_file(config[e].video_source) THEN "done" ELSE "cv_reconnect"]
              /\ UNCHANGED <<pending, nSamples>>
         [] event = "frame" ->
              /\ thread' = [thread EXCEPT ![e] = "cv_loop"]
              /\ UNCHANGED <<connection_active, stats, pending, nSamples>>
         [] event = "sample" ->
              /\ nSamples < MaxSamples
              /\ nSamples' = nSamples + 1
              /\ pending' = [pending EXCEPT ![e] = [seq |-> 0, path |-> "cv", task |-> 0]]
              /\ thread' = [thread EXCEPT ![e] = "enqueue"]
              /\ UNCHANGED <<connection_active, stats>>
    /\ UNCHANGED <<nEngines, config, is_running, sampling, stats_lock, scan, registryVars, queueVars>>

\* _opencv_capture_loop, a read that yields a frame, with the sampling policy
\* computed from the clocks: the wall clock has advanced by dt and, for a
\* file, the video position by dpos. A file whose position reads above 0 is
\* sampled on the position, anything else on the wall clock.
CvReadTimed(e, dt, dpos) ==
    /\ thread[e] = "cv_read"
    /\ connection_active[e]
    /\ StatsLockFree(e)
    /\ sampling[e].now + dt <= FrameInterval + MaxTime
    /\ sampling[e].pos + dpos <= MaxTime
    /\ LET c == sampling[e]
           is_file == is_local_file(config[e].video_source)
           now == c.now + dt
           pos_msec == IF is_file THEN c.pos + dpos ELSE 0
           by_pos == is_file /\ pos_msec > 0
           should_sample ==
               IF by_pos
               THEN c.last_sample_msec = NoSample
                    \/ pos_msec - c.last_sample_msec >= FrameInterval
               ELSE now - c.last_sample_wall >= FrameInterval
       IN /\ ~is_file => dpos = 0
          /\ IF should_sample
             THEN /\ nSamples < MaxSamples
                  /\ nSamples' = nSamples + 1
                  /\ pending' = [pending EXCEPT ![e] = [seq |-> 0, path |-> "cv", task |-> 0]]
                  /\ thread' = [thread EXCEPT ![e] = "enqueue"]
                  /\ sampling' = [sampling EXCEPT ![e] =
                         [now |-> now, pos |-> pos_msec,
                          last_sample_wall |-> IF by_pos THEN c.last_sample_wall ELSE now,
                          last_sample_msec |-> IF by_pos THEN pos_msec ELSE c.last_sample_msec,
                          prev_wall |-> now, prev_pos |-> pos_msec]]
             ELSE /\ thread' = [thread EXCEPT ![e] = "cv_loop"]
                  /\ sampling' = [sampling EXCEPT ![e].now = now, ![e].pos = pos_msec]
                  /\ UNCHANGED <<pending, nSamples>>
    /\ UNCHANGED <<nEngines, config, is_running, connection_active, stats, stats_lock, scan,
                   registryVars, queueVars>>

\* _opencv_capture_loop, the reconnect of a live source: sleep(2), release,
\* reopen, and `continue` whether or not the source opened.
CvReconnect(e, opened) ==
    /\ thread[e] = "cv_reconnect"
    /\ connection_active' = [connection_active EXCEPT ![e] = opened \/ connection_active[e]]
    /\ thread' = [thread EXCEPT ![e] = "cv_loop"]
    /\ UNCHANGED <<nEngines, config, is_running, stats, pending, nSamples, sampling, stats_lock, scan,
                   registryVars, queueVars>>

\* EnqueueDetection without the backpressure test.
EnqueueDetection_NoDrop(e, encode_ok) ==
    /\ thread[e] = "enqueue"
    /\ StatsLockFree(e)
    /\ IF ~encode_ok
       THEN /\ stats' = [stats EXCEPT ![e].frames_failed = @ + 1]
            /\ pending' = [pending EXCEPT ![e] = NoFrame]
            /\ thread' = [thread EXCEPT ![e] = BackToLoop(pending[e].path)]
       ELSE /\ stats' = [stats EXCEPT ![e].frames_processed = @ + 1]
            /\ pending' = [pending EXCEPT ![e].seq = stats'[e].frames_processed]
            /\ thread' = [thread EXCEPT ![e] = "add_task"]
    /\ UNCHANGED <<nEngines, config, is_running, connection_active, nSamples, sampling, stats_lock, scan,
                   registryVars, queueVars>>

\* EnqueueDetection with `qsize > self.max_queue_size` for `>=`.
EnqueueDetection_OffByOne(e, encode_ok) ==
    /\ thread[e] = "enqueue"
    /\ StatsLockFree(e)
    /\ LET qsize == Len(task_queue) IN
       IF qsize > max_queue_size
       THEN /\ stats' = [stats EXCEPT ![e].frames_dropped = @ + 1]
            /\ pending' = [pending EXCEPT ![e] = NoFrame]
            /\ thread' = [thread EXCEPT ![e] = BackToLoop(pending[e].path)]
       ELSE IF ~encode_ok
       THEN /\ stats' = [stats EXCEPT ![e].frames_failed = @ + 1]
            /\ pending' = [pending EXCEPT ![e] = NoFrame]
            /\ thread' = [thread EXCEPT ![e] = BackToLoop(pending[e].path)]
       ELSE /\ stats' = [stats EXCEPT ![e].frames_processed = @ + 1]
            /\ pending' = [pending EXCEPT ![e].seq = stats'[e].frames_processed]
            /\ thread' = [thread EXCEPT ![e] = "add_task"]
    /\ UNCHANGED <<nEngines, config, is_running, connection_active, nSamples, sampling, stats_lock, scan,
                   registryVars, queueVars>>

\* EnqueueDetection numbering the frame without counting it first.
EnqueueDetection_NoIncrement(e, encode_ok) ==
    /\ thread[e] = "enqueue"
    /\ StatsLockFree(e)
    /\ LET qsize == Len(task_queue) IN
       IF qsize >= max_queue_size
       THEN /\ stats' = [stats EXCEPT ![e].frames_dropped = @ + 1]
            /\ pending' = [pending EXCEPT ![e] = NoFrame]
            /\ thread' = [thread EXCEPT ![e] = BackToLoop(pending[e].path)]
       ELSE IF ~encode_ok
       THEN /\ stats' = [stats EXCEPT ![e].frames_failed = @ + 1]
            /\ pending' = [pending EXCEPT ![e] = NoFrame]
            /\ thread' = [thread EXCEPT ![e] = BackToLoop(pending[e].path)]
       ELSE /\ pending' = [pending EXCEPT ![e].seq = stats[e].frames_processed + 1]
            /\ thread' = [thread EXCEPT ![e] = "add_task"]
            /\ UNCHANGED stats
    /\ UNCHANGED <<nEngines, config, is_running, connection_active, nSamples, sampling, stats_lock, scan,
                   registryVars, queueVars>>

\* EnqueueDetection encoding the frame before it looks at the queue.
EnqueueDetection_EncodeFirst(e, encode_ok) ==
    /\ thread[e] = "enqueue"
    /\ StatsLockFree(e)
    /\ LET qsize == Len(task_queue) IN
       IF ~encode_ok
       THEN /\ stats' = [stats EXCEPT ![e].frames_failed = @ + 1]
            /\ pending' = [pending EXCEPT ![e] = NoFrame]
            /\ thread' = [thread EXCEPT ![e] = BackToLoop(pending[e].path)]
       ELSE IF qsize >= max_queue_size
       THEN /\ stats' = [stats EXCEPT ![e].frames_dropped = @ + 1]
            /\ pending' = [pending EXCEPT ![e] = NoFrame]
            /\ thread' = [thread EXCEPT ![e] = BackToLoop(pending[e].path)]
       ELSE /\ stats' = [stats EXCEPT ![e].frames_processed = @ + 1]
            /\ pending' = [pending EXCEPT ![e].seq = stats'[e].frames_processed]
            /\ thread' = [thread EXCEPT ![e] = "add_task"]
    /\ UNCHANGED <<nEngines, config, is_running, connection_active, nSamples, sampling, stats_lock, scan,
                   registryVars, queueVars>>

\* _enqueue_detection(frame, sample_time) up to the task identifier: the
\* queue length is read first and a full queue drops the frame; then
\* cv2.imencode, whose failure counts the frame as failed; otherwise the frame
\* is counted and numbered under the stats lock.
EnqueueDetection(e, encode_ok) ==
    /\ thread[e] = "enqueue"
    /\ StatsLockFree(e)
    /\ LET qsize == Len(task_queue) IN
       IF qsize >= max_queue_size
       THEN /\ stats' = [stats EXCEPT ![e].frames_dropped = @ + 1]
            /\ pending' = [pending EXCEPT ![e] = NoFrame]
            /\ thread' = [thread EXCEPT ![e] = BackToLoop(pending[e].path)]
       ELSE IF ~encode_ok
       THEN /\ stats' = [stats EXCEPT ![e].frames_failed = @ + 1]
            /\ pending' = [pending EXCEPT ![e] = NoFrame]
            /\ thread' = [thread EXCEPT ![e] = BackToLoop(pending[e].path)]
       ELSE /\ stats' = [stats EXCEPT ![e].frames_processed = @ + 1]
            /\ pending' = [pending EXCEPT ![e].seq = stats'[e].frames_processed]
            /\ thread' = [thread EXCEPT ![e] = "add_task"]
    /\ UNCHANGED <<nEngines, config, is_running, connection_active, nSamples, sampling, stats_lock, scan,
                   registryVars, queueVars>>

\* _enqueue_detection, task_id = f"{stream_id}:{frame_number}:{suffix}" and
\* add_frame_processing_task up to task_queue.put(task).
EnqueuePut(e, suffix) ==
    /\ thread[e] = "add_task"
    /\ AddTaskPut(<<config[e].stream_id, pending[e].seq, suffix>>, e, pending[e].seq)
    /\ pending' = [pending EXCEPT ![e].task = Len(tasks) + 1]
    /\ thread' = [thread EXCEPT ![e] = "add_store"]
    /\ UNCHANGED <<nEngines, config, is_running, connection_active, stats, nSamples, sampling, stats_lock, scan,
                   fq_is_running, fq_workers, fq_stop, result_store, worker, nSubmits, submitting,
                   registryVars>>

\* add_task's result_store[task_id] = task, and the return to the capture loop.
EnqueueStore(e) ==
    /\ thread[e] = "add_store"
    /\ AddTaskStore(pending[e].task)
    /\ pending' = [pending EXCEPT ![e] = NoFrame]
    /\ thread' = [thread EXCEPT ![e] = BackToLoop(pending[e].path)]
    /\ UNCHANGED <<nEngines, config, is_running, connection_active, stats, nSamples, sampling, stats_lock, scan,
                   fq_is_running, fq_workers, fq_stop, task_queue, tasks, worker, nSubmits, submitting,
                   registryVars>>

\* VideoStreamProcessor.stop up to the join: the flag is cleared and the
\* caller waits in self._thread.join(timeout=5).
ProcessorStopBegin(e) ==
    is_running' = [is_running EXCEPT ![e] = FALSE]

\* self._thread.join(timeout=5) returns: the thread has finished, or the five
\* seconds have passed while it waits on its source.
JoinReturns(e) == ~ThreadAlive(e) \/ thread[e] \in BlockingPlaces

\* stop_video_stream(stream_id) up to processor.stop()'s join; _stream_lock
\* stays held while the caller joins. With no entry the call returns False.
stop_video_stream_begin(stream_id) ==
    /\ stream_lock = "free"
    /\ IF active_streams[stream_id] = 0
       THEN /\ ret' = [op |-> "stop", id |-> stream_id, value |-> FALSE]
            /\ UNCHANGED <<stream_lock, is_running>>
       ELSE /\ ProcessorStopBegin(active_streams[stream_id])
            /\ stream_lock' = stream_id
            /\ ret' = [op |-> "stopping", id |-> stream_id]
    /\ UNCHANGED <<active_streams, nEngines, config, connection_active, thread,
                   stats, pending, nSamples, sampling, stats_lock, scan, queueVars>>

\* stop_video_stream_end with `del _active_streams[stream_id]` left out.
stop_video_stream_end_KeepEntry(stream_id) ==
    /\ stream_lock = stream_id
    /\ JoinReturns(active_streams[stream_id])
    /\ stream_lock' = "free"
    /\ ret' = [op |-> "stop", id |-> stream_id, value |-> TRUE]
    /\ UNCHANGED <<active_streams, engineVars, queueVars>>

\* stop_video_stream_end that also cancels the tasks waiting in the queue.
stop_video_stream_end_Cancel(stream_id) ==
    /\ stream_lock = stream_id
    /\ JoinReturns(active_streams[stream_id])
    /\ active_streams' = [active_streams EXCEPT ![stream_id] = 0]
    /\ stream_lock' = "free"
    /\ ret' = [op |-> "stop", id |-> stream_id, value |-> TRUE]
    /\ task_queue' = <<>>
    /\ UNCHANGED <<engineVars, fq_is_running, fq_workers, fq_stop, result_store, tasks,
                   worker, nSubmits, submitting>>

\* stop_video_stream(stream_id) from the join's return: the entry is deleted,
\* the lock released and True returned.
stop_video_stream_end(stream_id) ==
    /\ stream_lock = stream_id
    /\ JoinReturns(active_streams[stream_id])
    /\ active_streams' = [active_streams EXCEPT ![stream_id] = 0]
    /\ stream_lock' = "free"
    /\ ret' = [op |-> "stop", id |-> stream_id, value |-> TRUE]
    /\ UNCHANGED <<engineVars, queueVars>>

\* VideoStreamProcessor.get_status(): a dict built under the stats lock (the
\* time stamps, the interval and the device and user ids are left out).
get_status(e) ==
    [found |-> TRUE,
     stream_id |-> config[e].stream_id,
     is_running |-> is_running[e],
     connection_active |-> connection_active[e],
     video_source |-> config[e].video_source,
     frames_processed |-> stats[e].frames_processed,
     frames_sent |-> stats[e].frames_sent,
     frames_failed |-> stats[e].frames_failed,
     frames_dropped |-> stats[e].frames_dropped,
     last_error |-> stats[e].last_error]

\* get_stream_status(stream_id): None without an entry, else the engine's
\* get_status().
get_stream_status(stream_id) ==
    IF active_streams[stream_id] = 0 THEN NotFound
    ELSE get_status(active_streams[stream_id])

\* What a caller reads in a value get_status returned: the fields themselves
\* when the value is a dict of its own.
ReadSnapshot(value) ==
    IF "ref" \in DOMAIN value THEN get_status(value.ref) ELSE value

\* get_stream_status(stream_id) up to processor.get_status(): _stream_lock is
\* taken, and without an entry released again with None returned.
get_stream_status_begin(stream_id) ==
    /\ stream_lock = "free"
    /\ IF active_streams[stream_id] = 0
       THEN /\ ret' = [op |-> "status", id |-> stream_id, value |-> NotFound]
            /\ UNCHANGED stream_lock
       ELSE /\ stream_lock' = "status"
            /\ ret' = [op |-> "status_wait", id |-> stream_id,
                       engine |-> active_streams[stream_id]]
    /\ UNCHANGED <<active_streams, resp, engineVars, queueVars>>

\* get_status, `with self._stats_lock:` entered by the caller that holds
\* _stream_lock.
get_status_enter ==
    /\ ret.op = "status_wait"
    /\ StatsLockFree(ret.engine)
    /\ stats_lock' = [stats_lock EXCEPT ![ret.engine] = "caller"]
    /\ ret' = [ret EXCEPT !.op = "status_read"]
    /\ UNCHANGED <<active_streams, stream_lock, resp, nEngines, config, is_running,
                   connection_active, thread, stats, pending, nSamples, sampling, scan,
                   queueVars>>

\* get_stream_status_end keeping _stats_lock when it returns.
get_stream_status_end_KeepLock ==
    /\ ret.op = "status_read"
    /\ ret' = [op |-> "status", id |-> ret.id, value |-> get_status(ret.engine)]
    /\ stream_lock' = "free"
    /\ UNCHANGED <<active_streams, resp, engineVars, queueVars>>

\* get_stream_status from inside get_status: the dict is built, both locks
\* are released and the dict returned.
get_stream_status_end ==
    /\ ret.op = "status_read"
    /\ ret' = [op |-> "status", id |-> ret.id, value |-> get_status(ret.engine)]
    /\ stats_lock' = [stats_lock EXCEPT ![ret.engine] = "free"]
    /\ stream_lock' = "free"
    /\ UNCHANGED <<active_streams, resp, nEngines, config, is_running,
                   connection_active, thread, stats, pending, nSamples, sampling, scan,
                   queueVars>>

\* The identifiers registered in _active_streams.
Registered == {id \in StreamIds : active_streams[id] # 0}

\* get_all_streams_status() up to the comprehension: _stream_lock is taken.
get_all_streams_status_begin ==
    /\ stream_lock = "free"
    /\ stream_lock' = "status"
    /\ ret' = [op |-> "all_wait", todo |-> Registered,
               value |-> [id \in StreamIds |-> NotFound]]
    /\ UNCHANGED <<active_streams, resp, engineVars, queueVars>>

\* get_all_streams_status, the comprehension reaches the entry of stream_id
\* and enters its processor's `with self._stats_lock:`.
get_all_streams_status_enter(stream_id) ==
    /\ ret.op = "all_wait"
    /\ stream_id \in ret.todo
    /\ StatsLockFree(active_streams[stream_id])
    /\ stats_lock' = [stats_lock EXCEPT ![active_streams[stream_id]] = "caller"]
    /\ ret' = [op |-> "all_read", todo |-> ret.todo, value |-> ret.value,
               id |-> stream_id]
    /\ UNCHANGED <<active_streams, stream_lock, resp, nEngines, config, is_running,
                   connection_active, thread, stats, pending, nSamples, sampling, scan,
                   queueVars>>

\* get_all_streams_status_read handing out a reference to the engine
\* instead of a dict of the values read.
get_all_streams_status_read_Alias ==
    /\ ret.op = "all_read"
    /\ stats_lock' = [stats_lock EXCEPT ![active_streams[ret.id]] = "free"]
    /\ ret' = [op |-> "all_wait", todo |-> ret.todo \ {ret.id},
               value |-> [ret.value EXCEPT ![ret.id] =
                             [found |-> TRUE, ref |-> active_streams[ret.id]]]]
    /\ UNCHANGED <<active_streams, stream_lock, resp, nEngines, config, is_running,
                   connection_active, thread, stats, pending, nSamples, sampling, scan,
                   queueVars>>

\* get_all_streams_status, one processor.get_status() returns its dict.
get_all_streams_status_read ==
    /\ ret.op = "all_read"
    /\ stats_lock' = [stats_lock EXCEPT ![active_streams[ret.id]] = "free"]
    /\ ret' = [op |-> "all_wait", todo |-> ret.todo \ {ret.id},
               value |-> [ret.value EXCEPT ![ret.id] = get_status(active_streams[ret.id])]]
    /\ UNCHANGED <<active_streams, stream_lock, resp, nEngines, config, is_running,
                   connection_active, thread, stats, pending, nSamples, sampling, scan,
                   queueVars>>

\* get_all_streams_status returns the dict of dicts and releases _stream_lock.
get_all_streams_status_end ==
    /\ ret.op = "all_wait"
    /\ ret.todo = {}
    /\ stream_lock' = "free"
    /\ ret' = [op |-> "all", value |-> ret.value]
    /\ UNCHANGED <<active_streams, resp, engineVars, queueVars>>

\* ------------------------------------------- engine methods called directly
\* A caller that holds VideoStreamProcessor objects itself and calls their
\* methods one after the other; ret is where that caller stands.
\* VideoStreamProcessor(stream_id, video_source, ...)
EngineNew(stream_id, video_source) ==
    /\ ret.op # "engine_stopping"
    /\ nEngines < MaxEngines
    /\ nEngines' = nEngines + 1
    /\ ProcessorInit(nEngines + 1, stream_id, video_source)
    /\ ret' = [op |-> "engine_new", engine |-> nEngines + 1]
    /\ UNCHANGED <<active_streams, stream_lock, resp, is_running, connection_active,
                   thread, stats, pending, nSamples, sampling, stats_lock, scan, queueVars>>

\* processor.start() on an engine that is running, or that has had no
\* capture thread so far.
EngineStart(e, opened) ==
    /\ ret.op # "engine_stopping"
    /\ e \in 1..nEngines
    /\ is_running[e] \/ thread[e] = "none"
    /\ ProcessorStart(e, opened)
    /\ ret' = [op |-> "engine_start", engine |-> e, value |-> StartReturns(e, opened)]
    /\ UNCHANGED <<active_streams, stream_lock, resp, nEngines, config, pending,
                   nSamples, sampling, stats_lock, scan, fq_stop, task_queue, result_store, tasks, nSubmits,
                   submitting>>

\* processor.start() on an engine that was started and stopped before and
\* whose capture thread has finished: self._thread is replaced.
EngineRestart(e, opened) ==
    /\ ret.op # "engine_stopping"
    /\ e \in 1..nEngines
    /\ ~is_running[e]
    /\ thread[e] = "done"
    /\ ProcessorStart(e, opened)
    /\ ret' = [op |-> "engine_start", engine |-> e, value |-> StartReturns(e, opened)]
    /\ UNCHANGED <<active_streams, stream_lock, resp, nEngines, config, pending,
                   nSamples, sampling, stats_lock, scan, fq_stop, task_queue, result_store, tasks, nSubmits,
                   submitting>>

\* processor.stop() up to the join.
EngineStop_begin(e) ==
    /\ ret.op # "engine_stopping"
    /\ e \in 1..nEngines
    /\ ProcessorStopBegin(e)
    /\ ret' = [op |-> "engine_stopping", engine |-> e]
    /\ UNCHANGED <<active_streams, stream_lock, resp, nEngines, config,
                   connection_active, thread, stats, pending, nSamples, sampling, stats_lock, scan, queueVars>>

\* stop() returning the outcome of the join.
StopReturns_Joined(e) == ~ThreadAlive(e)

\* What VideoStreamProcessor.stop returns: `return True`.
StopReturns(e) == TRUE

\* processor.stop() from the join's return (no join when _thread is None).
EngineStop_end(e) ==
    /\ ret = [op |-> "engine_stopping", engine |-> e]
    /\ JoinReturns(e)
    /\ ret' = [op |-> "engine_stop", engine |-> e, value |-> StopReturns(e)]
    /\ UNCHANGED <<active_streams, stream_lock, resp, engineVars, queueVars>>

\* ------------------------------------------------------- control surface
\* Python's truth value of a tuple: it is true unless the tuple is empty.
TupleTruth(t) == Len(t) > 0

\* frame_interval values a request may carry; below 1 is refused.
Intervals == {0, 1}

\* VideoStreamView.post: `success = start_video_stream(...)` holds the
\* (success, error_message) tuple and `if success:` tests that tuple.
VideoStreamView_post(stream_id, video_url, frame_interval, opened) ==
    IF stream_id = "" \/ video_url = ""
    THEN /\ resp' = [op |-> "post", status |-> "error", code |-> 400,
                     message |-> "stream_id and video_url are required"]
         /\ ret' = NoCall
         /\ UNCHANGED <<active_streams, stream_lock, engineVars, queueVars>>
    ELSE IF frame_interval < 1
    THEN /\ resp' = [op |-> "post", status |-> "error", code |-> 400,
                     message |-> "frame_interval must be a positive integer"]
         /\ ret' = NoCall
         /\ UNCHANGED <<active_streams, stream_lock, engineVars, queueVars>>
    ELSE /\ start_video_stream(stream_id, video_url, opened)
         /\ resp' = IF TupleTruth(ret'.value)
                    THEN [op |-> "post", status |-> "success", code |-> 200,
                          stream_id |-> stream_id]
                    ELSE [op |-> "post", status |-> "error", code |-> 400,
                          message |-> "already running or failed to start"]

\* VideoStreamView.delete up to the join inside stop_video_stream.
VideoStreamView_delete_begin(stream_id) ==
    IF stream_id = ""
    THEN /\ resp' = [op |-> "delete", status |-> "error", code |-> 400,
                     message |-> "stream_id is required"]
         /\ ret' = NoCall
         /\ UNCHANGED <<active_streams, stream_lock, engineVars, queueVars>>
    ELSE /\ stop_video_stream_begin(stream_id)
         /\ resp' = IF ret'.op = "stopping"
                    THEN [op |-> "deleting"]
                    ELSE [op |-> "delete", status |-> "error", code |-> 404,
                          message |-> "not active"]

\* VideoStreamView.delete from the return of stop_video_stream.
VideoStreamView_delete_end(stream_id) ==
    /\ stop_video_stream_end(stream_id)
    /\ resp' = IF ret'.value
               THEN [op |-> "delete", status |-> "success", code |-> 200,
                     stream_id |-> stream_id]
               ELSE [op |-> "delete", status |-> "error", code |-> 404,
                     message |-> "not active"]

\* ---------------------------------------------------------- raw MJPEG scan
\* The byte values the scan tells apart: 0xFF, 0xD8 and 0xD9. Any other
\* value is, like 0xD8 after 0xD8, a byte that completes no marker.
Bytes == {"FF", "D8", "D9"}

\* What resp.iter_content may deliver in one turn.
Chunks == UNION {[1..n -> Bytes] : n \in 1..MaxChunk}

\* bytes.find of a two-byte marker: the first position it starts at,
\* counted from 1, and 0 (Python's -1) when it does not occur.
find(buf, m1, m2) ==
    LET at == {i \in 1..(Len(buf) - 1) : buf[i] = m1 /\ buf[i + 1] = m2}
    IN IF at = {} THEN 0 ELSE CHOOSE i \in at : \A j \in at : i <= j

\* MjpegScan without the overflow test.
MjpegScan_NoCap(chunk) ==
    /\ LET buf == scan.byte_stream \o chunk
           a == find(buf, "FF", "D8")
           b == find(buf, "FF", "D9")
       IN scan' =
            IF a # 0 /\ b # 0 /\ b > a
            THEN [byte_stream |-> SubSeq(buf, b + 2, Len(buf)), chunk |-> chunk,
                  jpg_data |-> SubSeq(buf, a, b + 1)]
            ELSE [byte_stream |-> buf, chunk |-> chunk, jpg_data |-> <<>>]
    /\ UNCHANGED <<registryVars, nEngines, config, is_running, connection_active,
                   thread, stats, pending, nSamples, sampling, stats_lock, queueVars>>

\* _mjpeg_capture_loop, the body of `for chunk in resp.iter_content(...)`
\* up to the frame it cuts out: the chunk is appended; a buffer above
\* MAX_BUFFER_SIZE is emptied and the turn ends; otherwise the first start
\* marker and the first end marker are looked up and, when both exist with
\* the end behind the start, the bytes from one through the other become
\* jpg_data and the buffer keeps what follows.
MjpegScan(chunk) ==
    /\ LET buf == scan.byte_stream \o chunk
           a == find(buf, "FF", "D8")
           b == find(buf, "FF", "D9")
       IN scan' =
            IF Len(buf) > MAX_BUFFER_SIZE
            THEN [byte_stream |-> <<>>, chunk |-> chunk, jpg_data |-> <<>>]
            ELSE IF a # 0 /\ b # 0 /\ b > a
            THEN [byte_stream |-> SubSeq(buf, b + 2, Len(buf)), chunk |-> chunk,
                  jpg_data |-> SubSeq(buf, a, b + 1)]
            ELSE [byte_stream |-> buf, chunk |-> chunk, jpg_data |-> <<>>]
    /\ UNCHANGED <<registryVars, nEngines, config, is_running, connection_active,
                   thread, stats, pending, nSamples, sampling, stats_lock, queueVars>>

\* ------------------------------------------------------- specifications
MjpegOutcomes == {"ok", "status", "error"}
MjpegEvents == {"chunk", "sample", "undecodable", "end", "error"}
CvEvents == {"fail", "frame", "sample", "raise"}

\* One step of an engine's capture thread; `mj` and `cv` are the events its
\* source may produce.
Capture(mj, cv) ==
    \/ \E e \in Engines : CaptureLoop(e)
    \/ \E e \in Engines, o \in MjpegOutcomes : MjpegConnect(e, o)
    \/ \E e \in Engines, ev \in mj : MjpegChunk(e, ev)
    \/ \E e \in Engines, opened \in BOOLEAN : CvOpen(e, opened)
    \/ \E e \in Engines : CvLoop(e)
    \/ \E e \in Engines, ev \in cv : CvRead(e, ev)
    \/ \E e \in Engines, opened \in BOOLEAN : CvReconnect(e, opened)

\* One step of a capture thread inside _enqueue_detection; `sfx` are the
\* random suffixes a task identifier may draw.
Dispatch(sfx) ==
    \/ \E e \in Engines, ok \in BOOLEAN : EnqueueDetection(e, ok)
    \/ \E e \in Engines, x \in sfx : EnqueuePut(e, x)
    \/ \E e \in Engines : EnqueueStore(e)

\* One step of a worker thread of the frame queue.
Work ==
    \/ \E w \in Workers : WorkerCheck(w)
    \/ \E w \in Workers : WorkerGet(w)
    \/ \E w \in Workers : WorkerSetRunning(w)
    \/ \E w \in Workers : WorkerSetStarted(w)
    \/ \E w \in Workers, ok \in BOOLEAN : WorkerCall(w, ok)
    \/ \E w \in Workers : WorkerSetResult(w)
    \/ \E w \in Workers : WorkerSetCompleted(w)
    \/ \E w \in Workers : WorkerSetError(w)
    \/ \E w \in Workers : WorkerSetFailed(w)
    \/ \E w \in Workers : WorkerFinally(w)

\* One step of worker thread w.
WorkerStep(w) ==
    \/ WorkerCheck(w)
    \/ WorkerGet(w)
    \/ WorkerSetRunning(w)
    \/ WorkerSetStarted(w)
    \/ \E ok \in BOOLEAN : WorkerCall(w, ok)
    \/ WorkerSetResult(w)
    \/ WorkerSetCompleted(w)
    \/ WorkerSetError(w)
    \/ WorkerSetFailed(w)
    \/ WorkerFinally(w)

\* One step of engine e's capture thread on a source that is no HTTP url,
\* whatever its source does.
CaptureStep(e) ==
    \/ CaptureLoop(e)
    \/ \E opened \in BOOLEAN : CvOpen(e, opened)
    \/ CvLoop(e)
    \/ \E ev \in CvEvents : CvRead(e, ev)
    \/ \E opened \in BOOLEAN : CvReconnect(e, opened)
    \/ \E ok \in BOOLEAN : EnqueueDetection(e, ok)
    \/ \E x \in Suffixes : EnqueuePut(e, x)
    \/ EnqueueStore(e)

\* A caller of the registry's status functions.
Status(ids) ==
    \/ \E id \in ids : get_stream_status_begin(id)
    \/ get_status_enter
    \/ get_stream_status_end
    \/ get_all_streams_status_begin
    \/ \E id \in ids : get_all_streams_status_enter(id)
    \/ get_all_streams_status_read
    \/ get_all_streams_status_end

\* A caller that submits its own work to the frame queue.
Submit ==
    \/ \E n \in Names : SubmitPut(n)
    \/ SubmitStore

\* A caller of the registry's functions, for the identifiers and sources given.
Registry(ids, srcs) ==
    \/ \E id \in ids, src \in srcs, opened \in BOOLEAN :
          start_video_stream(id, src, opened) /\ UNCHANGED resp
    \/ \E id \in ids : stop_video_stream_begin(id) /\ UNCHANGED resp
    \/ \E id \in ids : stop_video_stream_end(id) /\ UNCHANGED resp

\* The part of Capture a source that is no HTTP url goes through.
CaptureCv(cv) ==
    \/ \E e \in Engines : CaptureLoop(e)
    \/ \E e \in Engines, opened \in BOOLEAN : CvOpen(e, opened)
    \/ \E e \in Engines : CvLoop(e)
    \/ \E e \in Engines, ev \in cv : CvRead(e, ev)
    \/ \E e \in Engines, opened \in BOOLEAN : CvReconnect(e, opened)

\* The control plane of one stream identifier, over every kind of source:
\* callers start and stop the stream while the capture threads open, read
\* and reconnect; no frame comes due.
Next ==
    \/ Registry({"s1"}, Sources)
    \/ Capture(MjpegEvents \ {"sample", "undecodable"}, CvEvents \ {"sample"})

Spec == Init /\ [][Next]_vars

\* The control plane of two stream identifiers with live RTSP sources.
NextStreams ==
    \/ Registry(StreamIds, {"rtsp"})
    \/ CaptureCv(CvEvents \ {"sample"})

SpecStreams == Init /\ [][NextStreams]_vars

\* The control surface in front of the registry, one live source.
NextView ==
    \/ \E id \in {"s1", ""}, src \in {"rtsp", ""}, iv \in Intervals, opened \in BOOLEAN :
          VideoStreamView_post(id, src, iv, opened)
    \/ \E id \in {"s1", ""} : VideoStreamView_delete_begin(id)
    \/ VideoStreamView_delete_end("s1")
    \/ CaptureCv(CvEvents \ {"sample"})

SpecView == Init /\ [][NextView]_vars

\* Dispatch: one engine on a live RTSP source that stays up selects frames
\* and submits them, the workers post them to the detection sink. With one
\* engine the frame number alone tells its task identifiers apart.
NextDispatch ==
    \/ start_video_stream("s1", "rtsp", TRUE) /\ UNCHANGED resp
    \/ \E e \in Engines : CaptureLoop(e)
    \/ \E e \in Engines : CvOpen(e, TRUE)
    \/ \E e \in Engines : CvLoop(e)
    \/ \E e \in Engines, ev \in {"frame", "sample"} : CvRead(e, ev)
    \/ Dispatch({"u1"})
    \/ Work

SpecDispatch == Init /\ [][NextDispatch]_vars

\* The task queue on its own: callers submit work, the workers run it.
NextQueue == init_frame_queue \/ Submit \/ Work

SpecQueue == Init /\ [][NextQueue]_vars

\* The task queue started and stopped: one caller starts the queue, and stops
\* it when it runs, in turn; another submits, under one name, as many tasks
\* as one start spawns workers; the workers run them and every task returns.
NextQueueLife ==
    \/ fq_stop.pc = "idle" /\ init_frame_queue
    \/ fq_is_running /\ FrameQueueStop_begin
    \/ FrameQueueStop_put
    \/ FrameQueueStop_join
    \/ nSubmits < max_workers /\ SubmitPut("a")
    \/ SubmitStore
    \/ \E w \in Workers : WorkerCheck(w)
    \/ \E w \in Workers : WorkerGet(w)
    \/ \E w \in Workers : WorkerSetRunning(w)
    \/ \E w \in Workers : WorkerSetStarted(w)
    \/ \E w \in Workers : WorkerCall(w, TRUE)
    \/ \E w \in Workers : WorkerSetResult(w)
    \/ \E w \in Workers : WorkerSetCompleted(w)
    \/ \E w \in Workers : WorkerFinally(w)

SpecQueueLife == Init /\ [][NextQueueLife]_vars

\* Engines driven directly: a caller constructs engines for one identifier
\* on a live RTSP source, the next one once the last one has
\* no live thread, and starts and stops any of them; no frame comes due.
NextEngine ==
    \/ \E src \in {"rtsp"} :
          /\ IF nEngines = 0 THEN TRUE ELSE ~ThreadAlive(nEngines)
          /\ EngineNew("s1", src)
    \/ \E e \in Engines, opened \in BOOLEAN : EngineStart(e, opened)
    \/ \E e \in Engines : EngineStop_begin(e)
    \/ \E e \in Engines : EngineStop_end(e)
    \/ CaptureCv(CvEvents \ {"sample"})

SpecEngine == Init /\ [][NextEngine]_vars

\* Sampling: one engine on a local file or a live RTSP source that stays up
\* reads frames while its clocks advance, and submits the frames its
\* sampling policy selects.
NextSampling ==
    \/ \E src \in {"file", "rtsp"} : start_video_stream("s1", src, TRUE) /\ UNCHANGED resp
    \/ \E e \in Engines : CaptureLoop(e)
    \/ \E e \in Engines : CvOpen(e, TRUE)
    \/ \E e \in Engines : CvLoop(e)
    \/ \E e \in Engines, dt \in 0..1, dpos \in 0..1 : CvReadTimed(e, dt, dpos)
    \/ Dispatch({"u1"})

SpecSampling == Init /\ [][NextSampling]_vars

\* Raw MJPEG dispatch: one engine on an HTTP source whose stream stays up
\* selects frames on the raw MJPEG path, some of which do not decode, and
\* submits them; the workers post them to the detection sink.
NextMjpeg ==
    \/ start_video_stream("s1", "http", TRUE) /\ UNCHANGED resp
    \/ \E e \in Engines : CaptureLoop(e)
    \/ \E e \in Engines : MjpegConnect(e, "ok")
    \/ \E e \in Engines, ev \in {"sample", "undecodable"} : MjpegChunk(e, ev)
    \/ Dispatch({"u1"})
    \/ Work

SpecMjpeg == Init /\ [][NextMjpeg]_vars

\* Stop during dispatch: one stream on a live RTSP source that stays up is
\* started once, submits up to max_workers frames and is stopped, while the
\* workers post the frames to the detection sink. The worker threads are
\* scheduled fairly and every sink call ends (request_timeout_s).
NextStopped ==
    \/ nEngines = 0 /\ start_video_stream("s1", "rtsp", TRUE) /\ UNCHANGED resp
    \/ stop_video_stream_begin("s1") /\ UNCHANGED resp
    \/ stop_video_stream_end("s1") /\ UNCHANGED resp
    \/ \E e \in Engines : CaptureLoop(e)
    \/ \E e \in Engines : CvOpen(e, TRUE)
    \/ \E e \in Engines : CvLoop(e)
    \/ \E e \in Engines : nSamples < max_workers /\ CvRead(e, "sample")
    \/ \E e \in Engines : EnqueueDetection(e, TRUE)
    \/ \E e \in Engines : EnqueuePut(e, "u1")
    \/ \E e \in Engines : EnqueueStore(e)
    \/ \E w \in Workers : WorkerStep(w)

SpecStopped ==
    Init /\ [][NextStopped]_vars /\ \A w \in Workers : WF_vars(WorkerStep(w))

\* Status reads: callers start, stop and inspect one stream on a live RTSP
\* source while its capture thread selects up to max_workers frames whose
\* JPEG encoding fails, so that counters move without any task.
NextStatus ==
    \/ start_video_stream("s1", "rtsp", TRUE) /\ UNCHANGED resp
    \/ stop_video_stream_begin("s1") /\ UNCHANGED resp
    \/ stop_video_stream_end("s1") /\ UNCHANGED resp
    \/ Status({"s1"})
    \/ \E e \in Engines : CaptureLoop(e)
    \/ \E e \in Engines : CvOpen(e, TRUE)
    \/ \E e \in Engines : CvLoop(e)
    \/ \E e \in Engines : nSamples < max_workers /\ CvRead(e, "sample")
    \/ \E e \in Engines : EnqueueDetection(e, FALSE)

SpecStatus == Init /\ [][NextStatus]_vars

\* Locks: one stream on a live RTSP source is started once, inspected and
\* stopped while its capture thread submits up to max_workers frames and the
\* workers post them, so that callers, capture thread and workers meet at
\* _stream_lock and _stats_lock.
NextLocks ==
    \/ nEngines = 0 /\ start_video_stream("s1", "rtsp", TRUE) /\ UNCHANGED resp
    \/ stop_video_stream_begin("s1") /\ UNCHANGED resp
    \/ stop_video_stream_end("s1") /\ UNCHANGED resp
    \/ Status({"s1"})
    \/ \E e \in Engines : CaptureLoop(e)
    \/ \E e \in Engines : CvOpen(e, TRUE)
    \/ \E e \in Engines : CvLoop(e)
    \/ \E e \in Engines : nSamples < max_workers /\ CvRead(e, "sample")
    \/ \E e \in Engines : EnqueueDetection(e, TRUE)
    \/ \E e \in Engines : EnqueuePut(e, "u1")
    \/ \E e \in Engines : EnqueueStore(e)
    \/ \E w \in Workers : WorkerStep(w)

SpecLocks == Init /\ [][NextLocks]_vars

\* The raw MJPEG scan on its own, over every sequence of chunks.
NextScan == \E chunk \in Chunks : MjpegScan(chunk)

SpecScan == Init /\ [][NextScan]_vars

\* One engine driven directly and started again: a caller constructs one
\* engine on a live RTSP source and starts and stops it, also after its
\* capture thread has finished; no frame comes due.
NextRestart ==
    \/ nEngines = 0 /\ EngineNew("s1", "rtsp")
    \/ \E e \in Engines, opened \in BOOLEAN : EngineStart(e, opened)
    \/ \E e \in Engines, opened \in BOOLEAN : EngineRestart(e, opened)
    \/ \E e \in Engines : EngineStop_begin(e)
    \/ \E e \in Engines : EngineStop_end(e)
    \/ CaptureCv(CvEvents \ {"sample"})

SpecRestart == Init /\ [][NextRestart]_vars

\* The task queue stopped while it works: one caller starts the queue, and
\* stops it when it runs, in turn; another submits one task; the worker
\* threads are scheduled fairly and the task's function returns.
NextQueueStop ==
    \/ fq_stop.pc = "idle" /\ init_frame_queue
    \/ fq_is_running /\ FrameQueueStop_begin
    \/ FrameQueueStop_put
    \/ FrameQueueStop_join
    \/ nSubmits < 1 /\ SubmitPut("a")
    \/ SubmitStore
    \/ \E w \in Workers : WorkerStep(w)

SpecQueueStop ==
    Init /\ [][NextQueueStop]_vars /\ \A w \in Workers : WF_vars(WorkerStep(w))

\* Cancellation: one stream on a live RTSP or HTTP source is started once
\* and stopped while its capture thread connects, reads, reconnects, selects
\* frames and submits them; the workers take the tasks off the queue.
NextCancel ==
    \/ \E src \in {"rtsp", "http"} :
          nEngines = 0 /\ start_video_stream("s1", src, TRUE) /\ UNCHANGED resp
    \/ stop_video_stream_begin("s1") /\ UNCHANGED resp
    \/ stop_video_stream_end("s1") /\ UNCHANGED resp
    \/ Capture(MjpegEvents, CvEvents)
    \/ Dispatch({"u1"})
    \/ \E w \in Workers : WorkerCheck(w)
    \/ \E w \in Workers : WorkerGet(w)

SpecCancel == Init /\ [][NextCancel]_vars

\* The task queue running and never stopped: a caller starts the queue,
\* another submits tasks under one name; the worker threads are scheduled
\* fairly and every task's function ends.
NextQueueRun ==
    \/ init_frame_queue
    \/ SubmitPut("a")
    \/ SubmitStore
    \/ \E w \in Workers : WorkerStep(w)

SpecQueueRun ==
    Init /\ [][NextQueueRun]_vars /\ \A w \in Workers : WF_vars(WorkerStep(w))

\* Shared backpressure: two streams on live RTSP sources that stay up are
\* started, each at most once, and select and submit frames side by side;
\* the workers take the tasks off the one queue and post them to a
\* detection sink that answers.
NextShared ==
    \/ \E id \in StreamIds :
          nEngines < 2 /\ start_video_stream(id, "rtsp", TRUE) /\ UNCHANGED resp
    \/ \E e \in Engines : CaptureLoop(e)
    \/ \E e \in Engines : CvOpen(e, TRUE)
    \/ \E e \in Engines : CvLoop(e)
    \/ \E e \in Engines : nSamples < MaxSamples - 1 /\ CvRead(e, "sample")
    \/ \E e \in Engines : EnqueueDetection(e, TRUE)
    \/ \E e \in Engines : EnqueuePut(e, "u1")
    \/ \E e \in Engines : EnqueueStore(e)
    \/ \E w \in Workers : WorkerCheck(w)
    \/ \E w \in Workers : WorkerGet(w)
    \/ \E w \in Workers : WorkerSetRunning(w)
    \/ \E w \in Workers : WorkerSetStarted(w)
    \/ \E w \in Workers : WorkerCall(w, TRUE)
    \/ \E w \in Workers : WorkerSetResult(w)
    \/ \E w \in Workers : WorkerSetCompleted(w)
    \/ \E w \in Workers : WorkerFinally(w)

SpecShared == Init /\ [][NextShared]_vars

\* ----------------------------------------------------------------- claims
\* Engines constructed so far.
Constructed == 1..nEngines

\* C1 (first half): every engine whose start succeeded and that has not been
\* stopped is the one the registry holds for its stream identifier, so no
\* identifier ever has two such engines.
C1_OnePerId ==
    \A e \in Constructed :
        is_running[e] => active_streams[config[e].stream_id] = e

\* C1 (second half): a start_video_stream(id) issued while id is registered
\* returns failure and changes neither the registry nor any engine.
C1_StartRejected ==
    \A id \in StreamIds :
        (/\ active_streams[id] # 0
         /\ \E src \in Sources, opened \in BOOLEAN : start_video_stream(id, src, opened))
        => /\ ret'.value[1] = FALSE
           /\ active_streams' = active_streams
           /\ engineVars' = engineVars

\* C1: the registry holds at most one engine per stream identifier, and a
\* start on a registered identifier fails and leaves everything as it was.
C1_AtMostOneEngine == [](C1_OnePerId) /\ [][C1_StartRejected]_vars

\* C1 witness: a start was refused for an identifier that is registered.
C1_Witness ==
    /\ ret.op = "start"
    /\ ret.value = <<FALSE, "already running">>
    /\ active_streams[ret.id] # 0
    /\ is_running[active_streams[ret.id]]

\* C2: a start whose probe-open failed returned that engine's recorded
\* error, and the engine it constructed has no capture thread, is not running
\* and is not registered; no engine without a thread is running or registered.
C2_FailFastOpen ==
    /\ \A e \in Constructed :
          thread[e] = "none" =>
             /\ ~is_running[e]
             /\ active_streams[config[e].stream_id] # e
             /\ stats[e].last_error = "Failed to open video source"
    /\ (ret.op = "start" /\ ret.value[1] = FALSE /\ ret.value[2] # "already running") =>
          /\ thread[nEngines] = "none"
          /\ ~is_running[nEngines]
          /\ ret.value[2] = stats[nEngines].last_error
          /\ active_streams[ret.id] = 0

\* C2 witness: a start has just failed on its probe-open.
C2_Witness ==
    /\ ret.op = "start"
    /\ ret.value = <<FALSE, "Failed to open video source">>
    /\ thread[nEngines] = "none"
    /\ active_streams[ret.id] = 0

\* C3: the start-stream request answers success exactly when the registry's
\* start_video_stream returned success.
C3_ViewReportsOutcome ==
    (resp.op = "post" /\ ret.op = "start") =>
        (resp.status = "success" <=> ret.value[1] = TRUE)

\* A status may stay, go from pending to running, or from running to an end.
LegalStep(a, b) ==
    \/ a = b
    \/ a = "pending" /\ b = "running"
    \/ a = "running" /\ b \in {"completed", "failed"}

\* C4, one step: every Task starts pending and moves only by LegalStep, and
\* so does what get_task_status reports of a Task while the store holds it.
C4_Step ==
    /\ Len(tasks') >= Len(tasks)
    /\ \A t \in 1..Len(tasks') :
          IF t <= Len(tasks)
          THEN LegalStep(tasks[t].status, tasks'[t].status)
          ELSE tasks'[t].status = "pending"
    /\ \A id \in TaskIds :
          (result_store[id] # 0 /\ result_store'[id] = result_store[id]) =>
             LegalStep(get_task_status(id).status, get_task_status(id)'.status)

\* C4: a task's status follows pending -> running -> {completed, failed}.
C4_Lifecycle == [][C4_Step]_vars

\* C4 witness: Status shows one task completed and another failed.
C4_Witness ==
    /\ \E id \in TaskIds : get_task_status(id).found /\ get_task_status(id).status = "completed"
    /\ \E id \in TaskIds : get_task_status(id).found /\ get_task_status(id).status = "failed"

\* Identifiers some Task has been constructed with.
Submitted == {tasks[t].id : t \in 1..Len(tasks)}

\* C5: Status of an identifier never submitted is not-found; in a terminal
\* status the result is set iff completed, the error iff failed, never both.
C5_TerminalFields ==
    \A id \in TaskIds :
        LET s == get_task_status(id) IN
        /\ id \notin Submitted => ~s.found
        /\ (s.found /\ s.status \in {"completed", "failed"}) =>
              /\ (s.result # None) <=> (s.status = "completed")
              /\ (s.error # None) <=> (s.status = "failed")
              /\ ~(s.result # None /\ s.error # None)

\* C5 witness: Status shows a failed task with its error, and another
\* identifier was never submitted.
C5_Witness ==
    /\ \E id \in TaskIds :
          /\ get_task_status(id).found
          /\ get_task_status(id).status = "failed"
          /\ get_task_status(id).error # None
    /\ \E id \in TaskIds : id \notin Submitted /\ ~get_task_status(id).found

\* Tasks that run engine e's _post_frame_to_detection.
TasksOf(e) == {t \in 1..Len(tasks) : tasks[t].engine = e}

\* No dispatch task of engine e is pending or running, and e is not in the
\* middle of submitting one.
Quiescent(e) ==
    /\ \A t \in TasksOf(e) : tasks[t].status \in {"completed", "failed"}
    /\ thread[e] \notin {"enqueue", "add_task", "add_store"}

\* C6: once an engine has no dispatch task pending or running,
\* frames_processed = frames_sent + frames_failed + frames_dropped.
C6_Accounting ==
    \A e \in Constructed :
        Quiescent(e) =>
            stats[e].frames_processed =
                stats[e].frames_sent + stats[e].frames_failed + stats[e].frames_dropped

\* C7, one step: a frame handed to _enqueue_detection while the queue holds
\* max_queue_size entries or more counts as dropped and leaves no trace.
C7_Step ==
    \A e \in Engines :
        (thread[e] = "enqueue" /\ thread'[e] # "enqueue"
            /\ Len(task_queue) >= max_queue_size) =>
           /\ stats' = [stats EXCEPT ![e].frames_dropped = @ + 1]
           /\ tasks' = tasks
           /\ task_queue' = task_queue
           /\ result_store' = result_store
           /\ pending'[e] = NoFrame
           /\ thread'[e] = BackToLoop(pending[e].path)

SinkSilent ==
    /\ \A t \in 1..Len(tasks) : tasks[t].status \in {"pending", "running"}
    /\ \A w \in Workers : worker[w].pc \notin {"set_result", "set_error"}

\* C8 as stated: with a silent sink, more than max_queue_size frames sampled
\* (frames whose encoding failed left aside) means at least one was dropped.
C8_DropAfterN ==
    \A e \in Constructed :
        (SinkSilent /\ stats[e].frames_processed + stats[e].frames_dropped
                         > max_queue_size)
        => stats[e].frames_dropped > 0

\* C8 amended: with a silent sink, more than max_queue_size + max_workers
\* frames submitted or dropped means at least one was dropped.
C8_DropAfterNPlusWorkers ==
    \A e \in Constructed :
        (SinkSilent /\ stats[e].frames_processed + stats[e].frames_dropped
                         > max_queue_size + max_workers)
        => stats[e].frames_dropped > 0

\* C8 witness: the sink is silent, the queue and every worker hold a frame,
\* and the next frame was dropped.
C8_Witness ==
    \E e \in Constructed :
        /\ SinkSilent
        /\ stats[e].frames_processed = max_queue_size + max_workers
        /\ stats[e].frames_dropped > 0

\* C9: the tasks of one engine carry strictly increasing frame numbers in
\* the order they were submitted.
C9_SequenceIncreasing ==
    \A i, j \in 1..Len(tasks) :
        (i < j /\ tasks[i].engine # 0 /\ tasks[i].engine = tasks[j].engine)
        => tasks[i].seq < tasks[j].seq

\* C9 witness: a later frame of an engine is completed while an earlier one
\* is still running.
C9_Witness ==
    \E i, j \in 1..Len(tasks) :
        /\ i < j
        /\ tasks[i].engine # 0
        /\ tasks[i].engine = tasks[j].engine
        /\ tasks[i].seq < tasks[j].seq
        /\ tasks[i].status = "running"
        /\ tasks[j].status = "completed"

\* C10, one step: when stop_video_stream returns, the engine it stopped has
\* no live capture thread and is not running.
C10_Step ==
    \A id \in StreamIds :
        (stream_lock = id /\ stream_lock' = "free") =>
            /\ ~is_running'[active_streams[id]]
            /\ thread'[active_streams[id]] \in {"none", "done"}

\* C10: after Stop() returns the capture thread is no longer alive and the
\* engine reports running = false.
C10_StopJoinsThread == [][C10_Step]_vars

\* C11, return value: every stop() that has returned, returned True.
C11_Returns == ret.op = "engine_stop" => ret.value = TRUE

\* C11, no-op: a stop() on an engine whose running flag is already clear
\* changes nothing of any engine, of the registry or of the queue, neither
\* when it clears the flag nor when its join returns.
C11_Step ==
    \A e \in Engines :
        (/\ ret' # ret
         /\ ret'.op \in {"engine_stopping", "engine_stop"}
         /\ ret'.engine = e
         /\ ~is_running[e])
        => UNCHANGED <<engineVars, queueVars, active_streams, stream_lock>>

\* C11: Stop() returns success in every engine state, and Stop() on a
\* stopped engine is a no-op.
C11_StopAlwaysSucceeds == [](C11_Returns) /\ [][C11_Step]_vars

\* C11 witness: stop() has returned True on an engine that never ran (its
\* start failed) while another engine, stopped earlier, has finished.
C11_Witness ==
    /\ ret.op = "engine_stop"
    /\ ret.value = TRUE
    /\ thread[ret.engine] = "none"
    /\ stats[ret.engine].last_error = "Failed to open video source"
    /\ \E e \in Constructed : e # ret.engine /\ thread[e] = "done" /\ ~is_running[e]

\* C12, no entry: stop_video_stream of an identifier the registry does not
\* hold returns False and changes nothing.
C12_NotFoundStep ==
    \A id \in StreamIds :
        (active_streams[id] = 0 /\ stop_video_stream_begin(id))
        => /\ ret' = [op |-> "stop", id |-> id, value |-> FALSE]
           /\ UNCHANGED <<active_streams, stream_lock, engineVars, queueVars>>

\* C12, entry: when stop_video_stream of a registered identifier returns, it
\* returns True, the engine's flag is clear, the entry is gone and
\* get_stream_status of the identifier is not-found.
C12_RemoveStep ==
    \A id \in StreamIds :
        (stream_lock = id /\ stream_lock' = "free")
        => /\ ret' = [op |-> "stop", id |-> id, value |-> TRUE]
           /\ ~is_running'[active_streams[id]]
           /\ active_streams'[id] = 0
           /\ ~get_stream_status(id)'.found

\* C12, start again: a start_video_stream of an identifier without entry,
\* on a source that opens, is accepted and registers the new engine.
C12_AcceptedStep ==
    \A id \in StreamIds :
        (active_streams[id] = 0 /\ \E src \in Sources : start_video_stream(id, src, TRUE))
        => /\ ret'.value = <<TRUE, None>>
           /\ active_streams'[id] = nEngines'
           /\ get_stream_status(id)'.found

\* C12: StopStream of an unknown id is a not-found no-op; of a registered id
\* it stops the engine and removes the entry, after which GetStatus is
\* not-found and StartStream is accepted again.
C12_StopStream == [][C12_NotFoundStep /\ C12_RemoveStep /\ C12_AcceptedStep]_vars

\* C12 witness: the first engine of an identifier ran and was stopped through
\* the registry, and a second start of that identifier was accepted.
C12_Witness ==
    /\ ret.op = "start"
    /\ ret.value = <<TRUE, None>>
    /\ active_streams[ret.id] = 2
    /\ config[1].stream_id = ret.id
    /\ thread[1] # "none"
    /\ ~is_running[1]

\* C13, bound: no more than max_workers worker threads are alive.
C13_WorkersBounded == Cardinality(LiveWorkers) <= max_workers

\* C13, no-op: a start() while the queue is running spawns no worker.
C13_StartStep == (fq_is_running /\ init_frame_queue) => worker' = worker

\* C13: across any sequence of Start() and Stop() the live workers never
\* exceed workerCount, and Start() while running spawns none.
C13_StartIdempotent == [](C13_WorkersBounded) /\ [][C13_StartStep]_vars

\* The last task submitted under the identifier of task t whose add_task
\* has returned.
LastReturned(t) ==
    CHOOSE u \in 1..Len(tasks) :
        /\ tasks[u].id = tasks[t].id
        /\ u # submitting
        /\ \A v \in 1..Len(tasks) :
              (tasks[v].id = tasks[t].id /\ v # submitting) => v <= u

\* C14: a caller inside add_task can always go on to its return, whatever
\* the workers do; and for every task whose add_task has returned,
\* get_task_status of its identifier is found and shows the task last
\* submitted under that identifier, in status pending or later.
C14_SubmitReturns ==
    /\ submitting # 0 => ENABLED SubmitStore
    /\ \A t \in 1..Len(tasks) :
          t # submitting =>
             LET s == get_task_status(tasks[t].id) IN
             /\ s.found
             /\ result_store[tasks[t].id] = LastReturned(t)
             /\ s.status \in {"pending", "running", "completed", "failed"}

\* C14 witness: add_task has returned for a task that no worker has taken,
\* on a queue that was never started, and Status shows it pending.
C14_Witness ==
    /\ ~fq_is_running
    /\ submitting = 0
    /\ \E t \in 1..Len(tasks) :
          /\ get_task_status(tasks[t].id).found
          /\ get_task_status(tasks[t].id).status = "pending"
          /\ result_store[tasks[t].id] = t

\* C15, one step, for an engine on a live source in the generic loop: a
\* failed read clears connection_active and leads to the reconnect, not to
\* the end of the loop; the reconnect is one reopen and leads back to the
\* loop test; and a read that yields a frame finds connection_active set.
C15_Step ==
    \A e \in Engines :
        ~is_local_file(config[e].video_source) =>
           /\ CvRead(e, "fail") =>
                 /\ ~connection_active'[e]
                 /\ thread'[e] = "cv_reconnect"
           /\ (thread[e] = "cv_reconnect" /\ thread'[e] # thread[e]) =>
                 /\ thread'[e] = "cv_loop"
                 /\ connection_active'[e] \/ connection_active' = connection_active
           /\ (\E ev \in {"frame", "sample"} : CvRead(e, ev)) =>
                 /\ connection_active[e] /\ connection_active'[e]
                 /\ thread'[e] \in {"cv_loop", "enqueue"}

\* C15: on a live source a read failure followed by a good read makes one
\* release-and-reopen, connection_active goes false and true again, and the
\* capture loop goes on.
C15_ReconnectOnce == [][C15_Step]_vars

\* C15 witness: a live engine whose read failed is reading again, connected.
C15_Witness ==
    \E e \in Constructed :
        /\ ~is_local_file(config[e].video_source)
        /\ stats[e].last_error = "Stream ended or error reading frame"
        /\ connection_active[e]
        /\ is_running[e]
        /\ thread[e] = "cv_read"

\* Engines on a local file whose capture thread has ended while the running
\* flag is still set.
FileEnded(e) ==
    /\ config[e].video_source = "file"
    /\ thread[e] = "done"
    /\ is_running[e]

\* C16, state: a file engine whose loop has ended and that was not stopped
\* is disconnected, is still the registered engine of its identifier, and
\* its status says running with no connection.
C16_State ==
    \A e \in Constructed :
        FileEnded(e) =>
           LET id == config[e].stream_id IN
           /\ ~connection_active[e]
           /\ active_streams[id] = e
           /\ get_stream_status(id).found
           /\ get_stream_status(id).is_running
           /\ ~get_stream_status(id).connection_active

\* C16, one step: on a file the failed read ends the loop with the running
\* flag as it was; the thread never reconnects and never runs again; and a
\* start for the identifier of an ended file engine is rejected.
C16_Step ==
    \A e \in Engines :
        config[e].video_source = "file" =>
           /\ CvRead(e, "fail") =>
                 /\ thread'[e] = "done"
                 /\ ~connection_active'[e]
                 /\ is_running'[e] = is_running[e]
           /\ thread'[e] # "cv_reconnect"
           /\ thread[e] = "done" => thread'[e] = "done"
           /\ (FileEnded(e) /\ \E src \in Sources, opened \in BOOLEAN :
                                  start_video_stream(config[e].stream_id, src, opened))
              => /\ ret'.value = <<FALSE, "already running">>
                 /\ active_streams' = active_streams
                 /\ nEngines' = nEngines

\* C16: a file's first failed read ends the capture loop for good, the
\* engine stays running and registered with no connection, and its
\* identifier cannot be started again before it is stopped.
C16_FileEnds == [](C16_State) /\ [][C16_Step]_vars

\* C16 witness: a start was just rejected for the identifier of a file
\* engine whose read failed.
C16_Witness ==
    \E e \in Constructed :
        /\ FileEnded(e)
        /\ stats[e].last_error = "Stream ended or error reading frame"
        /\ ret = [op |-> "start", id |-> config[e].stream_id,
                  value |-> <<FALSE, "already running">>]

\* C17, one step: a frame sampled after another one lies at least the
\* interval after it, on the wall clock or on the video position.
C17_Step ==
    \A e \in Engines :
        (/\ thread[e] = "cv_read"
         /\ thread'[e] = "enqueue"
         /\ sampling[e].prev_wall # NoSample)
        => \/ sampling'[e].now - sampling[e].prev_wall >= FrameInterval
           \/ sampling'[e].pos - sampling[e].prev_pos >= FrameInterval

\* C17: any two consecutive sampled frames of a stream are at least the
\* configured interval apart on the clock in use.
C17_SampledOncePerInterval == [][C17_Step]_vars

\* The dispatch tasks of engine e whose sink call has returned normally.
Delivered(e) ==
    {t \in TasksOf(e) :
        \/ tasks[t].status = "completed"
        \/ \E w \in Workers : worker[w].task = t
                               /\ worker[w].pc \in {"set_result", "set_completed"}}

\* C18, the states: frames_sent counts the tasks whose sink call succeeded,
\* a finished task is Completed with the payload after a success and Failed
\* with the exception text after a failure.
C18_State ==
    /\ \A e \in Constructed : stats[e].frames_sent = Cardinality(Delivered(e))
    /\ \A t \in 1..Len(tasks) :
          tasks[t].engine # 0 =>
            /\ tasks[t].status = "completed" =>
                  tasks[t].result = "payload" /\ tasks[t].error = None
            /\ tasks[t].status = "failed" =>
                  tasks[t].error = "exception text" /\ tasks[t].result = None
    /\ \A w \in Workers :
          (worker[w].pc = "finally" /\ tasks[worker[w].task].engine # 0) =>
              tasks[worker[w].task].status =
                  IF worker[w].out = "payload" THEN "completed" ELSE "failed"

\* C18, one step: the end of a sink call counts once on the task's engine,
\* frames_sent on success, frames_failed with last_error on failure, and
\* leaves the capture thread alone; frames_sent changes in no other step.
C18_Step ==
    /\ \A w \in Workers :
          (/\ worker[w].pc = "call"
           /\ worker'[w].pc # "call"
           /\ tasks[worker[w].task].engine # 0)
          => LET e == tasks[worker[w].task].engine IN
             /\ \/ /\ worker'[w].pc = "set_result"
                   /\ stats' = [stats EXCEPT ![e].frames_sent = @ + 1]
                \/ /\ worker'[w].pc = "set_error"
                   /\ stats'[e].last_error # None
                   /\ stats' = [stats EXCEPT ![e].frames_failed = @ + 1,
                                             ![e].last_error = stats'[e].last_error]
             /\ thread' = thread
             /\ pending' = pending
             /\ is_running' = is_running
             /\ connection_active' = connection_active
    /\ \A e \in Engines :
          stats'[e].frames_sent # stats[e].frames_sent =>
              \E w \in Workers : /\ worker[w].pc = "call"
                                 /\ worker'[w].pc = "set_result"
                                 /\ tasks[worker[w].task].engine = e

\* C18: every dispatch task a worker executes updates its engine's counters
\* exactly once, frames_sent and Completed on success, frames_failed,
\* last_error and Failed with a message otherwise, and a dispatch failure
\* never changes the state of the capture thread.
C18_DispatchCountedOnce == [](C18_State) /\ [][C18_Step]_vars

\* C18 witness: one engine has a Completed and a Failed dispatch task, the
\* failure counted, while its capture thread keeps running.
C18_Witness ==
    \E e \in Constructed :
        /\ \E t \in TasksOf(e) : tasks[t].status = "completed"
        /\ \E t \in TasksOf(e) : tasks[t].status = "failed" /\ tasks[t].completed_at
        /\ stats[e].frames_sent > 0
        /\ stats[e].frames_failed > 0
        /\ stats[e].last_error = "post failed"
        /\ ThreadAlive(e)

\* The dispatch tasks of engine e whose sink call has not ended yet.
Outstanding(e) ==
    {t \in TasksOf(e) :
        /\ tasks[t].status \in {"pending", "running"}
        /\ \A w \in Workers :
              worker[w].task = t =>
                  worker[w].pc \in {"set_running", "set_started", "call"}}

\* The selected frames engine e has accounted for: counted as dropped,
\* failed or sent, in the hands of its capture thread, or in a task whose
\* sink call has not ended.
Accounted(e) ==
    stats[e].frames_dropped + stats[e].frames_failed + stats[e].frames_sent
    + (IF thread[e] \in {"enqueue", "add_task"} THEN 1 ELSE 0)
    + Cardinality(Outstanding(e))

\* C19: every frame the sampling policy selected is delivered, still on its
\* way, or counted in frames_failed or frames_dropped (one stream).
C19_EveryLossCounted ==
    \A e \in Constructed :
        config[e].stream_id = "s1" /\ ThreadAlive(e) => nSamples = Accounted(e)

\* C20: at every moment at most one capture thread is alive for each
\* stream identifier, whatever sequence of starts and stops it has seen.
C20_OneThreadPerId ==
    \A e1, e2 \in Constructed :
        (/\ config[e1].stream_id = config[e2].stream_id
         /\ ThreadAlive(e1)
         /\ ThreadAlive(e2))
        => e1 = e2

\* Task t is a dispatch task of an engine that has been stopped.
SubmittedAndStopped(t) ==
    /\ t <= Len(tasks)
    /\ tasks[t].engine # 0
    /\ ~is_running[tasks[t].engine]

\* Task t has been executed and its outcome is on its engine's counters.
ExecutedAndCounted(t) ==
    /\ t <= Len(tasks)
    /\ tasks[t].status \in {"completed", "failed"}
    /\ stats[tasks[t].engine].frames_sent + stats[tasks[t].engine].frames_failed
         >= Cardinality({u \in TasksOf(tasks[t].engine) :
                            tasks[u].status \in {"completed", "failed"}})

\* C21, one step: the end of a sink call for a stopped engine's task still
\* counts on that engine, and stopping a stream removes no task.
C21_Step ==
    /\ \A w \in Workers :
          (/\ worker[w].pc = "call"
           /\ worker'[w].pc # "call"
           /\ SubmittedAndStopped(worker[w].task))
          => LET e == tasks[worker[w].task].engine IN
                stats'[e].frames_sent + stats'[e].frames_failed
                  = stats[e].frames_sent + stats[e].frames_failed + 1
    /\ stream_lock # stream_lock'
          => task_queue' = task_queue /\ tasks' = tasks /\ worker' = worker

\* C21: a dispatch task submitted when its stream is stopped is not
\* cancelled; a worker eventually executes it, it ends Completed or Failed
\* and it is counted on the stopped engine.
C21_NotCancelled ==
    /\ \A t \in 1..max_workers : SubmittedAndStopped(t) ~> ExecutedAndCounted(t)
    /\ [][C21_Step]_vars

\* C21 witness: the stream is stopped and unregistered and its thread has
\* ended; one of its tasks has run to the end and another still waits.
C21_Witness ==
    \E e \in Constructed :
        /\ ~is_running[e]
        /\ thread[e] = "done"
        /\ active_streams["s1"] = 0
        /\ \E t \in TasksOf(e) : tasks[t].status = "pending" /\ task_queue # <<>>
        /\ \E t \in TasksOf(e) : ExecutedAndCounted(t)

\* A thread that holds a _stats_lock across steps is a registry caller inside
\* get_status, which took _stream_lock before and asks for no lock there.
C22_LockOrder ==
    \A e \in Engines :
        stats_lock[e] # "free" =>
            /\ stream_lock = "status"
            /\ ret.op \in {"status_read", "all_read"}
            /\ \A d \in Engines : stats_lock[d] # "free" => d = e

\* A registry caller inside a call can take its next step, or waits for a
\* _stats_lock whose holder can; a join waits for a capture thread that can
\* take a step of its own or has used up the five seconds.
C22_Progress ==
    /\ ret.op = "status_wait" => ENABLED get_status_enter
    /\ ret.op = "status_read" => ENABLED get_stream_status_end
    /\ ret.op = "all_read" => ENABLED get_all_streams_status_read
    /\ ret.op = "all_wait" =>
          \/ ENABLED get_all_streams_status_end
          \/ \E id \in StreamIds : ENABLED get_all_streams_status_enter(id)
    /\ \A id \in StreamIds :
          stream_lock = id =>
              \/ ENABLED stop_video_stream_end(id)
              \/ ENABLED CaptureStep(active_streams[id])
    /\ \A w \in Workers :
          worker[w].pc \notin {"none", "done"} => ENABLED WorkerStep(w)
             \/ (stream_lock = "status" /\ ENABLED (get_stream_status_end
                                                      \/ get_all_streams_status_read))
    /\ \A e \in Constructed :
          ThreadAlive(e) => ENABLED CaptureStep(e)
             \/ (stream_lock = "status" /\ ENABLED (get_stream_status_end
                                                      \/ get_all_streams_status_read))

\* C22: no interleaving of registry calls, capture threads and workers
\* deadlocks: _stream_lock is never requested by a holder of a _stats_lock,
\* and a join never waits for a thread that waits for _stream_lock.
C22_NoDeadlock == C22_LockOrder /\ C22_Progress

\* C22 witness: a caller holds _stream_lock and the engine's _stats_lock
\* while the capture thread and a worker both need that _stats_lock.
C22_Witness ==
    \E e \in Constructed, w \in Workers :
        /\ stats_lock[e] = "caller"
        /\ thread[e] = "enqueue"
        /\ worker[w].pc = "call"
        /\ tasks[worker[w].task].engine = e
        /\ ~ENABLED WorkerStep(w)
        /\ ~ENABLED CaptureStep(e)

\* The positions of a caller inside, or just back from, a status function.
StatusOps == {"status", "status_wait", "status_read", "all_wait", "all_read", "all"}

\* C23, the states: a status function that has returned holds no lock.
C23_Released ==
    ret.op \in {"status", "all"} =>
        stream_lock = "free" /\ \A e \in Engines : stats_lock[e] = "free"

\* C23, one step: a step of a status function changes neither the registry
\* nor an engine nor the queue; get_stream_status returns None exactly for
\* an identifier without entry and the engine's values otherwise; and what a
\* returned snapshot shows stays what it was while engines go on counting.
C23_Step ==
    /\ (ret' # ret /\ ret'.op \in StatusOps) =>
          /\ active_streams' = active_streams
          /\ <<nEngines, config, is_running, connection_active, thread, stats,
               pending>>' = <<nEngines, config, is_running, connection_active,
                              thread, stats, pending>>
          /\ queueVars' = queueVars
    /\ (ret' # ret /\ ret'.op = "status") =>
          IF active_streams[ret'.id] = 0
          THEN ret'.value = NotFound
          ELSE ReadSnapshot(ret.value)' = get_status(active_streams[ret'.id])
    /\ (ret' = ret /\ ret.op = "status") =>
          ReadSnapshot(ret.value)' = ReadSnapshot(ret.value)
    /\ (ret' = ret /\ ret.op = "all") =>
          \A id \in StreamIds :
              ReadSnapshot(ret.value[id])' = ReadSnapshot(ret.value[id])

\* C23: get_stream_status and get_all_streams_status are pure reads, an
\* unregistered identifier gives not-found, and a returned snapshot is a
\* copy that later counting does not change.
C23_PureReads == [](C23_Released) /\ [][C23_Step]_vars

\* C23 witness: a snapshot was returned for a registered stream and the
\* engine has counted another failed frame since.
C23_Witness ==
    /\ ret.op = "status"
    /\ ret.value # NotFound
    /\ active_streams[ret.id] # 0
    /\ ReadSnapshot(ret.value).frames_failed < stats[active_streams[ret.id]].frames_failed

\* Engine e's _enqueue_detection returns with the frame counted as failed
\* and nothing submitted.
CountedFailed(e) ==
    /\ stats' = [stats EXCEPT ![e].frames_failed = @ + 1]
    /\ thread'[e] # "add_task"
    /\ tasks' = tasks
    /\ task_queue' = task_queue

\* Engine e's _enqueue_detection returns with the frame counted as dropped
\* and nothing submitted.
CountedDropped(e) ==
    /\ stats' = [stats EXCEPT ![e].frames_dropped = @ + 1]
    /\ thread'[e] # "add_task"
    /\ tasks' = tasks
    /\ task_queue' = task_queue

\* C24 as stated: a sampled frame whose JPEG encoding would fail counts as
\* failed and submits nothing, whatever the queue length.
C24_EncodeDecidedFirst ==
    \A e \in Constructed :
        thread[e] = "enqueue" =>
            ~ENABLED (EnqueueDetection(e, FALSE) /\ ~CountedFailed(e))

\* C24 amended: the queue length is decided first. Below max_queue_size a
\* sampled frame whose JPEG encoding would fail counts as failed and submits
\* nothing; at max_queue_size or above it counts as dropped, unencoded.
C24_BackpressureDecidedFirst ==
    \A e \in Constructed :
        thread[e] = "enqueue" =>
            IF Len(task_queue) >= max_queue_size
            THEN ~ENABLED (EnqueueDetection(e, FALSE) /\ ~CountedDropped(e))
            ELSE ~ENABLED (EnqueueDetection(e, FALSE) /\ ~CountedFailed(e))

\* C24 witness: an engine that has counted an encode failure holds a
\* sampled frame while the queue is full.
C24_Witness ==
    \E e \in Constructed :
        /\ thread[e] = "enqueue"
        /\ StatsLockFree(e)
        /\ Len(task_queue) >= max_queue_size
        /\ stats[e].frames_failed > 0
        /\ \A t \in TasksOf(e) : tasks[t].status # "failed"
        /\ \A w \in Workers : worker[w].pc \notin {"set_error", "set_failed"}

\* C25, the states: a task that is Failed and no longer in a worker's hands
\* has its error string and its completion time stamp.
C25_State ==
    \A t \in 1..Len(tasks) :
        (tasks[t].status = "failed" /\ \A w \in Workers : worker[w].task # t)
        => tasks[t].error = "exception text" /\ tasks[t].completed_at

\* C25, one step: a worker whose task raised records the message, marks the
\* task Failed, and after `finally` stands at its loop test again, from
\* where it asks for the next task; no such step changes the live workers.
C25_Step ==
    \A w \in Workers :
        /\ (worker[w].pc = "call" /\ worker'[w].pc = "set_error")
              => LiveWorkers' = LiveWorkers
        /\ (worker[w].pc = "set_error" /\ worker'[w] # worker[w])
              => /\ worker'[w].pc = "set_failed"
                 /\ tasks'[worker[w].task].error = "exception text"
                 /\ LiveWorkers' = LiveWorkers
        /\ (worker[w].pc = "set_failed" /\ worker'[w] # worker[w])
              => /\ worker'[w].pc = "finally"
                 /\ tasks'[worker[w].task].status = "failed"
                 /\ LiveWorkers' = LiveWorkers
        /\ (worker[w].pc = "finally" /\ worker'[w] # worker[w])
              => /\ worker'[w].pc = "check"
                 /\ tasks'[worker[w].task].completed_at
                 /\ LiveWorkers' = LiveWorkers
        /\ (worker[w].pc = "check" /\ worker'[w] # worker[w] /\ fq_is_running)
              => worker'[w].pc = "get"

\* C25: a task whose work raises never ends its worker; the task is Failed
\* with its error string and completion time, and the worker returns to its
\* loop and takes later tasks, so the live workers stay as many.
C25_FailureKeepsWorker == [](C25_State) /\ [][C25_Step]_vars

\* C25 witness: one task has failed and is finished while all max_workers
\* workers are alive and one of them runs a later task.
C25_Witness ==
    \E t \in 1..Len(tasks), w \in Workers :
        /\ tasks[t].status = "failed"
        /\ tasks[t].completed_at
        /\ worker[w].pc = "call"
        /\ worker[w].task > t
        /\ Cardinality(LiveWorkers) = max_workers
        /\ \A v \in Workers \ {w} : worker[v].pc \in {"none", "check", "get"}

\* The tasks constructed with identifier id whose add_task has stored them.
StoredAs(id) == {t \in 1..Len(tasks) : tasks[t].id = id /\ t # submitting}

\* C26, the states: the store holds, for an identifier, the task stored
\* last under it; every earlier task of that identifier is out of reach of
\* get_task_status, which reports the last one.
C26_State ==
    \A id \in Names \X {0} \X {None} :
        StoredAs(id) # {} =>
            /\ result_store[id] \in StoredAs(id)
            /\ \A t \in StoredAs(id) : t <= result_store[id]
            /\ get_task_status(id).status = tasks[result_store[id]].status

\* C26, one step: add_task stores the new task under its identifier whether
\* or not the identifier is taken, and takes nothing away from the queue,
\* the tasks or the workers.
C26_Step ==
    (submitting # 0 /\ submitting' = 0) =>
        /\ result_store' = [result_store EXCEPT ![tasks[submitting].id] = submitting]
        /\ task_queue' = task_queue
        /\ tasks' = tasks
        /\ worker' = worker

\* C26: the queue does not enforce unique identifiers. A submission under
\* an identifier the store holds replaces the entry, get_task_status then
\* reports the second task, and the first one is still executed with its
\* outcome out of reach.
C26_CollisionOverwrites == [](C26_State) /\ [][C26_Step]_vars

\* C26 witness: two tasks share an identifier; the first has run to
\* Completed, yet get_task_status reports the second one, Pending.
C26_Witness ==
    \E t1, t2 \in 1..Len(tasks) :
        /\ t1 < t2
        /\ tasks[t1].id = tasks[t2].id
        /\ tasks[t1].status = "completed"
        /\ result_store[tasks[t1].id] = t2
        /\ get_task_status(tasks[t1].id).status = "pending"

\* Where a capture thread stands inside _mjpeg_capture_loop.
MjpegPlaces == {"mjpeg_connect", "mjpeg_iter"}

\* Where a capture thread stands inside _opencv_capture_loop.
CvPlaces == {"cv_open", "cv_loop", "cv_read", "cv_reconnect"}

\* C27, the states: only the thread of an HTTP(S) source is ever inside the
\* raw MJPEG path.
C27_State ==
    \A e \in Constructed :
        thread[e] \in MjpegPlaces => is_http(config[e].video_source)

\* C27, one step: a new capture thread enters the raw path exactly for an
\* HTTP(S) source; the raw path is left either for the generic path, with
\* the failure recorded in that step, or for the end of the thread, with no
\* failure recorded; and a thread that has ended stays ended.
C27_Step ==
    \A e \in Engines :
        /\ (thread[e] = "start" /\ thread'[e] # "start") =>
              thread'[e] = IF is_http(config[e].video_source)
                           THEN "mjpeg_connect" ELSE "cv_open"
        /\ (thread[e] \in MjpegPlaces /\ thread'[e] \notin MjpegPlaces) =>
              \/ /\ thread'[e] = "cv_open"
                 /\ stats'[e].last_error \in {"HTTP status", "MJPEG capture error"}
                 /\ ~connection_active'[e]
              \/ /\ thread'[e] = "done"
                 /\ stats'[e] = stats[e]
                 /\ ~connection_active'[e]
        /\ (thread[e] \in MjpegPlaces
              /\ stats'[e].last_error # stats[e].last_error) => thread'[e] = "cv_open"
        /\ (thread[e] = "done" /\ config'[e] = config[e]) => thread'[e] = "done"
        /\ thread[e] \in CvPlaces => thread'[e] \notin MjpegPlaces

C28_LiveThreadKeepsRunning ==
    \A e \in Constructed :
        (~is_local_file(config[e].video_source) /\ is_running[e])
        => thread[e] # "done"

\* C29, the states: the rolling buffer holds at most MAX_BUFFER_SIZE bytes
\* once a chunk has been processed.
C29_Capped == Len(scan.byte_stream) <= MAX_BUFFER_SIZE

\* C29, one step: a chunk that takes the buffer above MAX_BUFFER_SIZE
\* leaves an empty buffer and no frame.
C29_Step ==
    Len(scan.byte_stream \o scan'.chunk) > MAX_BUFFER_SIZE
        => scan'.byte_stream = <<>> /\ scan'.jpg_data = <<>>

\* C29: after each chunk the rolling buffer holds at most the cap, and a
\* chunk that makes it exceed the cap discards the whole buffer, for every
\* chunk sequence.
C29_BufferCapped == [](C29_Capped) /\ [][C29_Step]_vars

\* C29 witness: a chunk has just taken the buffer above the cap; it left
\* an empty buffer and no frame.
C29_Witness ==
    /\ scan.chunk # <<>>
    /\ scan.byte_stream = <<>>
    /\ scan.jpg_data = <<>>

\* The first end marker of buf behind position a, 0 when there is none.
EndAfter(buf, a) ==
    LET ends == {i \in 1..(Len(buf) - 1) : i > a /\ buf[i] = "FF" /\ buf[i + 1] = "D9"}
    IN IF ends = {} THEN 0 ELSE CHOOSE i \in ends : \A j \in ends : i <= j

\* C30, one step: when the buffer with the new chunk holds a start marker
\* and, behind it, an end marker, the scan gives the bytes from the one
\* through the other as the frame and keeps what follows.
C30_Step ==
    LET buf == scan.byte_stream \o scan'.chunk
        a == find(buf, "FF", "D8")
        b == EndAfter(buf, a)
    IN (Len(buf) <= MAX_BUFFER_SIZE /\ a # 0 /\ b # 0) =>
          /\ scan'.jpg_data = SubSeq(buf, a, b + 1)
          /\ scan'.byte_stream = SubSeq(buf, b + 2, Len(buf))

\* C30: whenever the rolling buffer holds a start marker followed later by
\* an end marker, the scan emits exactly the bytes from that start marker
\* through that end marker and keeps the bytes behind it, also when a stray
\* end marker comes first.
C30_FrameBetweenMarkers == [][C30_Step]_vars

\* C31, one step: a start() on a running engine returns False and spawns no
\* thread, and a start() that returns True is the first one to do so on its
\* engine (the engine has had no capture thread before).
C31_Step ==
    \A e \in Engines :
        (/\ ret' # ret
         /\ ret'.op = "engine_start"
         /\ ret'.engine = e)
        => /\ is_running[e] => (~ret'.value /\ thread' = thread)
           /\ ret'.value => thread[e] = "none"

\* C31: at most one Start() succeeds per engine instance: a Start() on a
\* running engine fails and spawns no thread, and no sequence of Start() and
\* Stop() calls on one engine makes a second Start() succeed.
C31_OneStartPerEngine == [][C31_Step]_vars

\* C32, exit: a worker that is alive when stop() clears the flag finishes.
C32_Exits ==
    \A w \in Workers :
        (fq_stop.pc = "put" /\ w \in LiveWorkers) ~> (worker[w].pc = "done")

\* C32, one step: a worker that reads a cleared flag in its loop test
\* finishes there, without taking a task.
C32_Step ==
    \A w \in Workers :
        (worker[w].pc = "check" /\ ~fq_is_running /\ worker'[w] # worker[w])
        => (worker'[w].pc = "done" /\ task_queue' = task_queue)

\* C32: after Stop() every worker eventually exits, once the task it is
\* executing has ended; Stop() itself returns even if a worker is busy; and
\* no worker that observed the non-running flag starts a task.
C32_StopEndsWorkers == C32_Exits /\ [][C32_Step]_vars

\* C33: whatever get_task_status returns while a worker writes the task, a
\* status of running or later comes with started_at, a status of completed
\* or failed comes with completed_at, a result comes only with completed and
\* an error only with failed.
C33_SnapshotNeverTorn ==
    \A id \in TaskIds :
        LET snapshot == get_task_status(id) IN
        snapshot.found =>
            /\ snapshot.status \in {"running", "completed", "failed"} => snapshot.started_at
            /\ snapshot.status \in {"completed", "failed"} => snapshot.completed_at
            /\ snapshot.result # None => snapshot.status = "completed"
            /\ snapshot.error # None => snapshot.status = "failed"

\* Tasks the capture thread of engine e can still submit once its flag is
\* cleared, by where it stands: one while it is in a read or handles the
\* frame of that read, none from the loop test on.
StillToSubmit(e) ==
    IF thread[e] \in {"cv_read", "enqueue", "add_task"} THEN 1 ELSE 0

\* Engine e puts a task on the queue in this step.
Submits(e) ==
    /\ Len(tasks') = Len(tasks) + 1
    /\ tasks'[Len(tasks')].engine = e

\* C34, one step of an engine whose flag is cleared: what its thread can
\* still submit never grows and shrinks with every task it submits, and a
\* thread that reads the cleared flag in its loop test ends there.
C34_Step ==
    \A e \in Constructed :
        ~is_running[e] =>
            /\ ~is_running'[e]
            /\ StillToSubmit(e)' + (IF Submits(e) THEN 1 ELSE 0) <= StillToSubmit(e)
            /\ (thread[e] = "cv_loop" /\ thread'[e] # thread[e]) => thread'[e] = "done"
            /\ (thread[e] = "mjpeg_iter" /\ thread'[e] # thread[e])
               => thread'[e] \in {"done", "cv_open"}

\* C34: once Stop() has cleared an engine's running flag its capture thread
\* submits at most one more task, the frame of the iteration in progress,
\* and starts no new read after it has seen the cleared flag.
C34_AtMostOneMore == [][C34_Step]_vars

\* C34 witness: the stop has returned while the thread was in a read, and
\* the thread has since put the frame of that read on the queue.
C34_Witness ==
    /\ active_streams["s1"] = 0
    /\ stream_lock = "free"
    /\ ~is_running[1]
    /\ thread[1] = "add_store"

\* C35: while the queue runs and no stop() is under way, every worker that
\* the last start() spawned is alive: no sentinel of an earlier stop() ends
\* a worker of the new pool.
C35_NewPoolKeepsWorkers ==
    (fq_is_running /\ fq_stop.pc = "idle") =>
        /\ Cardinality(fq_workers) = max_workers
        /\ fq_workers \subseteq LiveWorkers

\* Task t has been submitted.
Queued(t) == t <= Len(tasks)

\* Task t has reached COMPLETED or FAILED.
Terminal(t) == t <= Len(tasks) /\ tasks[t].status \in {"completed", "failed"}

\* C36: while the queue runs and is never stopped, every submitted task
\* eventually reaches Completed or Failed, the workers being scheduled
\* fairly; none stays Pending.
C36_EveryTaskEnds ==
    \A t \in 1..MaxSubmits : (fq_is_running /\ Queued(t)) ~> Terminal(t)

\* C36 witness: a task submitted while the queue was running has ended
\* while another one is still in the queue.
C36_Witness ==
    /\ fq_is_running
    /\ Terminal(1)
    /\ Queued(2)
    /\ tasks[2].status = "pending"
    /\ task_queue = <<2>>

\* C37: with any number of running streams sharing one max queue depth, the
\* tasks waiting in the shared queue never number more than that depth.
C37_QueueNeverOvershoots == Len(task_queue) <= max_queue_size

\* The dispatch tasks of engine e whose sink call has failed: the worker is
\* on the exception path, or the task is FAILED.
DispatchFailed(e) ==
    {t \in TasksOf(e) :
        \/ tasks[t].status = "failed"
        \/ \E w \in Workers : worker[w].task = t
                               /\ worker[w].pc \in {"set_error", "set_failed"}}

InFlight(t) ==
    \/ \E i \in 1..Len(task_queue) : task_queue[i] = t
    \/ \E w \in Workers : worker[w].task = t

\* C39: at every moment, in the middle of add_task too, every task that is
\* in the work queue or in the hands of a worker has an entry in the
\* result store: get_task_status finds its identifier.
C39_InFlightTaskIsStored ==
    \A t \in 1..Len(tasks) : InFlight(t) => get_task_status(tasks[t].id).found

\* Task t has been put on the work queue and a worker has taken it off.
Taken(t) == t <= Len(tasks) /\ \A i \in 1..Len(task_queue) : task_queue[i] # t

\* Tasks t1 and t2 come from the same engine, t1 with the smaller frame number.
SameStreamEarlier(t1, t2) ==
    /\ tasks[t1].engine # 0
    /\ tasks[t1].engine = tasks[t2].engine
    /\ tasks[t1].seq < tasks[t2].seq

\* C40 as stated: of two tasks of one stream, the one with the smaller
\* sequence number is marked Running no later than the other.
C40_RunningInOrder ==
    \A t1, t2 \in 1..Len(tasks) :
        (SameStreamEarlier(t1, t2) /\ tasks[t2].status # "pending")
        => tasks[t1].status # "pending"

\* C40, amended: the tasks of one stream are put in the order of their
\* sequence numbers, and the workers take tasks off the queue in the order
\* they were put, so the task with the smaller sequence number is taken no
\* later than the other; it is the mark Running that may come later.
C40_TakenInOrder ==
    /\ \A t1, t2 \in 1..Len(tasks) : SameStreamEarlier(t1, t2) => t1 < t2
    /\ \A t1, t2 \in 1..Len(tasks) : (t1 < t2 /\ Taken(t2)) => Taken(t1)

\* C40 witness: two tasks of one stream have been taken, and the later one
\* is marked Running while the earlier one is not yet.
C40_Witness ==
    \E t1, t2 \in 1..Len(tasks) :
        /\ SameStreamEarlier(t1, t2)
        /\ Taken(t1)
        /\ Taken(t2)
        /\ tasks[t1].status = "pending"
        /\ tasks[t2].status = "running"

====
